---- MODULE Spec2Model ----
(***************************************************************************)
(* The event-planning recommendation service of app.py: the start / refine *)
(* / cart request handlers over the process-wide session map, the two      *)
(* model-backed stages with their output-repair ladders, the keyword       *)
(* fallback engine and the product search aggregator.                      *)
(***************************************************************************)
EXTENDS Integers, Sequences, FiniteSets, TLC

(***************************************************************************)
(* Strings.  A Python str is a TLA+ string; CharTable gives the characters *)
(* of every string the model uses, so that lower() and the substring test *)
(* are computed character by character.  A TLA+ string cannot hold a       *)
(* backquote: the model writes ~ for it, so ~~~ is the fence marker.       *)
(***************************************************************************)
CharTable ==
    "cake" :> <<"c", "a", "k", "e">> @@
    "burger" :> <<"b", "u", "r", "g", "e", "r">> @@
    "pizza" :> <<"p", "i", "z", "z", "a">> @@
    "brownie" :> <<"b", "r", "o", "w", "n", "i", "e">> @@
    "cupcake" :> <<"c", "u", "p", "c", "a", "k", "e">> @@
    "muffin" :> <<"m", "u", "f", "f", "i", "n">> @@
    "lights" :> <<"l", "i", "g", "h", "t", "s">> @@
    "poppers" :> <<"p", "o", "p", "p", "e", "r", "s">> @@
    "curtain" :> <<"c", "u", "r", "t", "a", "i", "n">> @@
    "towels" :> <<"t", "o", "w", "e", "l", "s">> @@
    "sandwich" :> <<"s", "a", "n", "d", "w", "i", "c", "h">> @@
    "chips" :> <<"c", "h", "i", "p", "s">> @@
    "juice" :> <<"j", "u", "i", "c", "e">> @@
    "water" :> <<"w", "a", "t", "e", "r">> @@
    "snacks" :> <<"s", "n", "a", "c", "k", "s">> @@
    "wipes" :> <<"w", "i", "p", "e", "s">> @@
    "storage" :> <<"s", "t", "o", "r", "a", "g", "e">> @@
    "bag" :> <<"b", "a", "g">> @@
    "biryani" :> <<"b", "i", "r", "y", "a", "n", "i">> @@
    "curry" :> <<"c", "u", "r", "r", "y">> @@
    "naan" :> <<"n", "a", "a", "n">> @@
    "rice" :> <<"r", "i", "c", "e">> @@
    "dal" :> <<"d", "a", "l">> @@
    "plates" :> <<"p", "l", "a", "t", "e", "s">> @@
    "cleaner" :> <<"c", "l", "e", "a", "n", "e", "r">> @@
    "coffee" :> <<"c", "o", "f", "f", "e", "e">> @@
    "tea" :> <<"t", "e", "a">> @@
    "birthday" :> <<"b", "i", "r", "t", "h", "d", "a", "y">> @@
    "party" :> <<"p", "a", "r", "t", "y">> @@
    "picnic" :> <<"p", "i", "c", "n", "i", "c">> @@
    "outdoor" :> <<"o", "u", "t", "d", "o", "o", "r">> @@
    "dinner" :> <<"d", "i", "n", "n", "e", "r">> @@
    "meal" :> <<"m", "e", "a", "l">> @@
    "birthday party for 10 kids" :> <<"b", "i", "r", "t", "h", "d", "a", "y", " ", "p", "a", "r", "t", "y", " ", "f", "o", "r", " ", "1", "0", " ", "k", "i", "d", "s">> @@
    "Picnic then a PARTY" :> <<"P", "i", "c", "n", "i", "c", " ", "t", "h", "e", "n", " ", "a", " ", "P", "A", "R", "T", "Y">> @@
    "outdoor dinner" :> <<"o", "u", "t", "d", "o", "o", "r", " ", "d", "i", "n", "n", "e", "r">> @@
    "Family MEAL" :> <<"F", "a", "m", "i", "l", "y", " ", "M", "E", "A", "L">> @@
    "dinner before the birthday" :> <<"d", "i", "n", "n", "e", "r", " ", "b", "e", "f", "o", "r", "e", " ", "t", "h", "e", " ", "b", "i", "r", "t", "h", "d", "a", "y">> @@
    "plan something" :> <<"p", "l", "a", "n", " ", "s", "o", "m", "e", "t", "h", "i", "n", "g">> @@
    "a picnic" :> <<"a", " ", "p", "i", "c", "n", "i", "c">> @@
    "Chocolate Cake" :> <<"C", "h", "o", "c", "o", "l", "a", "t", "e", " ", "C", "a", "k", "e">> @@
    "Veggie Pizza" :> <<"V", "e", "g", "g", "i", "e", " ", "P", "i", "z", "z", "a">> @@
    "Cupcake" :> <<"C", "u", "p", "c", "a", "k", "e">> @@
    "Cheese Cake" :> <<"C", "h", "e", "e", "s", "e", " ", "C", "a", "k", "e">> @@
    "Cheese Burger" :> <<"C", "h", "e", "e", "s", "e", " ", "B", "u", "r", "g", "e", "r">> @@
    "Brownie" :> <<"B", "r", "o", "w", "n", "i", "e">> @@
    "Muffin" :> <<"M", "u", "f", "f", "i", "n">> @@
    "Club Sandwich" :> <<"C", "l", "u", "b", " ", "S", "a", "n", "d", "w", "i", "c", "h">> @@
    "Plain Rice" :> <<"P", "l", "a", "i", "n", " ", "R", "i", "c", "e">> @@
    "Potato Chips" :> <<"P", "o", "t", "a", "t", "o", " ", "C", "h", "i", "p", "s">> @@
    "Coffee" :> <<"C", "o", "f", "f", "e", "e">> @@
    "Samosa" :> <<"S", "a", "m", "o", "s", "a">> @@
    "Idli" :> <<"I", "d", "l", "i">> @@
    "Dosa" :> <<"D", "o", "s", "a">> @@
    "Vada" :> <<"V", "a", "d", "a">> @@
    "Party Poppers" :> <<"P", "a", "r", "t", "y", " ", "P", "o", "p", "p", "e", "r", "s">> @@
    "LED String Lights" :> <<"L", "E", "D", " ", "S", "t", "r", "i", "n", "g", " ", "L", "i", "g", "h", "t", "s">> @@
    "Bath Towels" :> <<"B", "a", "t", "h", " ", "T", "o", "w", "e", "l", "s">> @@
    "Storage Box" :> <<"S", "t", "o", "r", "a", "g", "e", " ", "B", "o", "x">> @@
    "Paper Plates" :> <<"P", "a", "p", "e", "r", " ", "P", "l", "a", "t", "e", "s">> @@
    "Notebook" :> <<"N", "o", "t", "e", "b", "o", "o", "k">> @@
    "Pen" :> <<"P", "e", "n">> @@
    "Stapler" :> <<"S", "t", "a", "p", "l", "e", "r">> @@
    "" :> <<>> @@
    "~~~" :> <<"~", "~", "~">> @@
    "~~~json" :> <<"~", "~", "~", "j", "s", "o", "n">> @@
    "json" :> <<"j", "s", "o", "n">> @@
    "m2" :> <<"m", "2">> @@
    "m5" :> <<"m", "5">> @@
    "r1" :> <<"r", "1">> @@
    "r2" :> <<"r", "2">> @@
    "p1" :> <<"p", "1">> @@
    "p2" :> <<"p", "2">> @@
    "Food05" :> <<"F", "o", "o", "d", "0", "5">> @@
    "Food06" :> <<"F", "o", "o", "d", "0", "6">> @@
    "Food07" :> <<"F", "o", "o", "d", "0", "7">> @@
    "Food08" :> <<"F", "o", "o", "d", "0", "8">> @@
    "Food09" :> <<"F", "o", "o", "d", "0", "9">> @@
    "Food10" :> <<"F", "o", "o", "d", "1", "0">> @@
    "Food11" :> <<"F", "o", "o", "d", "1", "1">> @@
    "Food12" :> <<"F", "o", "o", "d", "1", "2">> @@
    "Food13" :> <<"F", "o", "o", "d", "1", "3">> @@
    "Food14" :> <<"F", "o", "o", "d", "1", "4">> @@
    "Food15" :> <<"F", "o", "o", "d", "1", "5">> @@
    "Food16" :> <<"F", "o", "o", "d", "1", "6">> @@
    "Food17" :> <<"F", "o", "o", "d", "1", "7">> @@
    "Food18" :> <<"F", "o", "o", "d", "1", "8">> @@
    "Food19" :> <<"F", "o", "o", "d", "1", "9">> @@
    "Food20" :> <<"F", "o", "o", "d", "2", "0">> @@
    "Food21" :> <<"F", "o", "o", "d", "2", "1">> @@
    "Food22" :> <<"F", "o", "o", "d", "2", "2">> @@
    "Food23" :> <<"F", "o", "o", "d", "2", "3">> @@
    "Food24" :> <<"F", "o", "o", "d", "2", "4">> @@
    "Food25" :> <<"F", "o", "o", "d", "2", "5">> @@
    "Food26" :> <<"F", "o", "o", "d", "2", "6">> @@
    "Food27" :> <<"F", "o", "o", "d", "2", "7">> @@
    "Food28" :> <<"F", "o", "o", "d", "2", "8">> @@
    "Food29" :> <<"F", "o", "o", "d", "2", "9">> @@
    "Food30" :> <<"F", "o", "o", "d", "3", "0">> @@
    "Food31" :> <<"F", "o", "o", "d", "3", "1">> @@
    "Food32" :> <<"F", "o", "o", "d", "3", "2">> @@
    "Food33" :> <<"F", "o", "o", "d", "3", "3">> @@
    "Food34" :> <<"F", "o", "o", "d", "3", "4">> @@
    "Food35" :> <<"F", "o", "o", "d", "3", "5">> @@
    "Food36" :> <<"F", "o", "o", "d", "3", "6">> @@
    "Food37" :> <<"F", "o", "o", "d", "3", "7">> @@
    "Food38" :> <<"F", "o", "o", "d", "3", "8">> @@
    "Food39" :> <<"F", "o", "o", "d", "3", "9">> @@
    "Food40" :> <<"F", "o", "o", "d", "4", "0">> @@
    "Food41" :> <<"F", "o", "o", "d", "4", "1">> @@
    "Food42" :> <<"F", "o", "o", "d", "4", "2">> @@
    "Food43" :> <<"F", "o", "o", "d", "4", "3">> @@
    "Food44" :> <<"F", "o", "o", "d", "4", "4">> @@
    "Food45" :> <<"F", "o", "o", "d", "4", "5">> @@
    "Food46" :> <<"F", "o", "o", "d", "4", "6">> @@
    "Food47" :> <<"F", "o", "o", "d", "4", "7">> @@
    "Food48" :> <<"F", "o", "o", "d", "4", "8">> @@
    "Food49" :> <<"F", "o", "o", "d", "4", "9">> @@
    "Food50" :> <<"F", "o", "o", "d", "5", "0">> @@
    "Prod03" :> <<"P", "r", "o", "d", "0", "3">> @@
    "Prod04" :> <<"P", "r", "o", "d", "0", "4">> @@
    "Prod05" :> <<"P", "r", "o", "d", "0", "5">> @@
    "Prod06" :> <<"P", "r", "o", "d", "0", "6">> @@
    "Prod07" :> <<"P", "r", "o", "d", "0", "7">> @@
    "Prod08" :> <<"P", "r", "o", "d", "0", "8">> @@
    "Prod09" :> <<"P", "r", "o", "d", "0", "9">> @@
    "Prod10" :> <<"P", "r", "o", "d", "1", "0">> @@
    "Prod11" :> <<"P", "r", "o", "d", "1", "1">> @@
    "Prod12" :> <<"P", "r", "o", "d", "1", "2">> @@
    "Prod13" :> <<"P", "r", "o", "d", "1", "3">> @@
    "Prod14" :> <<"P", "r", "o", "d", "1", "4">> @@
    "Prod15" :> <<"P", "r", "o", "d", "1", "5">> @@
    "Prod16" :> <<"P", "r", "o", "d", "1", "6">> @@
    "Prod17" :> <<"P", "r", "o", "d", "1", "7">> @@
    "Prod18" :> <<"P", "r", "o", "d", "1", "8">> @@
    "Prod19" :> <<"P", "r", "o", "d", "1", "9">> @@
    "Prod20" :> <<"P", "r", "o", "d", "2", "0">> @@
    "Prod21" :> <<"P", "r", "o", "d", "2", "1">> @@
    "Prod22" :> <<"P", "r", "o", "d", "2", "2">> @@
    "Prod23" :> <<"P", "r", "o", "d", "2", "3">> @@
    "Prod24" :> <<"P", "r", "o", "d", "2", "4">> @@
    "Prod25" :> <<"P", "r", "o", "d", "2", "5">> @@
    "Prod26" :> <<"P", "r", "o", "d", "2", "6">> @@
    "Prod27" :> <<"P", "r", "o", "d", "2", "7">> @@
    "Prod28" :> <<"P", "r", "o", "d", "2", "8">> @@
    "Prod29" :> <<"P", "r", "o", "d", "2", "9">> @@
    "Prod30" :> <<"P", "r", "o", "d", "3", "0">> @@
    "Prod31" :> <<"P", "r", "o", "d", "3", "1">> @@
    "Prod32" :> <<"P", "r", "o", "d", "3", "2">> @@
    "Prod33" :> <<"P", "r", "o", "d", "3", "3">> @@
    "Prod34" :> <<"P", "r", "o", "d", "3", "4">> @@
    "Prod35" :> <<"P", "r", "o", "d", "3", "5">> @@
    "Prod36" :> <<"P", "r", "o", "d", "3", "6">> @@
    "Prod37" :> <<"P", "r", "o", "d", "3", "7">> @@
    "Prod38" :> <<"P", "r", "o", "d", "3", "8">> @@
    "Prod39" :> <<"P", "r", "o", "d", "3", "9">> @@
    "Prod40" :> <<"P", "r", "o", "d", "4", "0">> @@
    "Prod41" :> <<"P", "r", "o", "d", "4", "1">> @@
    "Prod42" :> <<"P", "r", "o", "d", "4", "2">> @@
    "Prod43" :> <<"P", "r", "o", "d", "4", "3">> @@
    "Prod44" :> <<"P", "r", "o", "d", "4", "4">> @@
    "Prod45" :> <<"P", "r", "o", "d", "4", "5">> @@
    "Prod46" :> <<"P", "r", "o", "d", "4", "6">> @@
    "Prod47" :> <<"P", "r", "o", "d", "4", "7">> @@
    "Prod48" :> <<"P", "r", "o", "d", "4", "8">> @@
    "Prod49" :> <<"P", "r", "o", "d", "4", "9">> @@
    "Prod50" :> <<"P", "r", "o", "d", "5", "0">>

Chars(s) == CharTable[s]

UpperCase == <<"A", "B", "C", "D", "E", "F", "G", "H", "I", "J", "K", "L", "M",
               "N", "O", "P", "Q", "R", "S", "T", "U", "V", "W", "X", "Y", "Z">>

LowerCase == <<"a", "b", "c", "d", "e", "f", "g", "h", "i", "j", "k", "l", "m",
               "n", "o", "p", "q", "r", "s", "t", "u", "v", "w", "x", "y", "z">>

\* str.lower() on one character
LowerChar(c) ==
    IF \E i \in 1..Len(UpperCase) : UpperCase[i] = c
    THEN LowerCase[CHOOSE i \in 1..Len(UpperCase) : UpperCase[i] = c]
    ELSE c

\* str.lower() on a sequence of characters
RECURSIVE LowerChars(_)
LowerChars(cs) ==
    IF cs = <<>> THEN <<>> ELSE <<LowerChar(Head(cs))>> \o LowerChars(Tail(cs))

\* str.lower() of every string of the table
LowerTable == [s \in DOMAIN CharTable |-> LowerChars(CharTable[s])]

\* s.lower(), as characters
Lower(s) == LowerTable[s]

\* needle in hay, on character sequences
Contains(hay, needle) ==
    \E i \in 0..(Len(hay) - Len(needle)) :
        \A j \in 1..Len(needle) : hay[i + j] = needle[j]

Min(a, b) == IF a <= b THEN a ELSE b

\* items[:n]
Take(s, n) == SubSeq(s, 1, Min(n, Len(s)))

\* a catalog list longer than the prompt shows: 51 names
LongFood ==
    << "Plain Rice", "Potato Chips", "Coffee", "Cupcake", "Food05", "Food06", "Food07", "Food08",
       "Food09", "Food10", "Food11", "Food12", "Food13", "Food14", "Food15", "Food16",
       "Food17", "Food18", "Food19", "Food20", "Food21", "Food22", "Food23", "Food24",
       "Food25", "Food26", "Food27", "Food28", "Food29", "Food30", "Food31", "Food32",
       "Food33", "Food34", "Food35", "Food36", "Food37", "Food38", "Food39", "Food40",
       "Food41", "Food42", "Food43", "Food44", "Food45", "Food46", "Food47", "Food48",
       "Food49", "Food50", "Chocolate Cake" >>

LongProd ==
    << "Storage Box", "Bath Towels", "Prod03", "Prod04", "Prod05", "Prod06", "Prod07", "Prod08",
       "Prod09", "Prod10", "Prod11", "Prod12", "Prod13", "Prod14", "Prod15", "Prod16",
       "Prod17", "Prod18", "Prod19", "Prod20", "Prod21", "Prod22", "Prod23", "Prod24",
       "Prod25", "Prod26", "Prod27", "Prod28", "Prod29", "Prod30", "Prod31", "Prod32",
       "Prod33", "Prod34", "Prod35", "Prod36", "Prod37", "Prod38", "Prod39", "Prod40",
       "Prod41", "Prod42", "Prod43", "Prod44", "Prod45", "Prod46", "Prod47", "Prod48",
       "Prod49", "Prod50", "Party Poppers" >>

(***************************************************************************)
(* The Fallback Engine: create_fallback_suggestions.                       *)
(***************************************************************************)
\* matches[:2]
MatchesPerKeyword == 2

\* random.sample(..., min(3, len(...)))
SampleSize == 3

\* list(dict.fromkeys(...))[:5]
SuggestionCap == 5

\* "birthday" in query_lower or "party" in query_lower, and the two elifs
HasTrigger(user_query, a, b) ==
    LET query_lower == Lower(user_query)
    IN  Contains(query_lower, Chars(a)) \/ Contains(query_lower, Chars(b))

\* A variant of the chain that tests picnic / outdoor first.
KeywordBucket_picnic_first(user_query) ==
    IF HasTrigger(user_query, "picnic", "outdoor") THEN "B"
    ELSE IF HasTrigger(user_query, "birthday", "party") THEN "A"
    ELSE IF HasTrigger(user_query, "dinner", "meal") THEN "C"
    ELSE "D"

\* The if / elif / elif / else chain choosing the keyword lists.
KeywordBucket(user_query) ==
    IF HasTrigger(user_query, "birthday", "party") THEN "A"
    ELSE IF HasTrigger(user_query, "picnic", "outdoor") THEN "B"
    ELSE IF HasTrigger(user_query, "dinner", "meal") THEN "C"
    ELSE "D"

\* the food_keywords and product_keywords assigned in each branch
FoodKeywords(bucket) ==
    CASE bucket = "A" -> <<"cake", "burger", "pizza", "brownie", "cupcake", "muffin">>
      [] bucket = "B" -> <<"sandwich", "chips", "juice", "water", "snacks">>
      [] bucket = "C" -> <<"biryani", "curry", "naan", "rice", "dal">>
      [] OTHER -> <<"burger", "pizza", "coffee", "tea", "snacks">>

ProductKeywords(bucket) ==
    CASE bucket = "A" -> <<"lights", "poppers", "curtain", "towels">>
      [] bucket = "B" -> <<"towels", "wipes", "storage", "bag">>
      [] bucket = "C" -> <<"plates", "storage", "cleaner">>
      [] OTHER -> <<"storage", "cleaner", "towels">>

food_keywords(user_query) == FoodKeywords(KeywordBucket(user_query))

product_keywords(user_query) == ProductKeywords(KeywordBucket(user_query))

\* [item for item in available if keyword.lower() in item.lower()]
RECURSIVE Matches(_, _)
Matches(keyword, available) ==
    IF available = <<>> THEN <<>>
    ELSE LET item == Head(available)
             rest == Matches(keyword, Tail(available))
         IN  IF Contains(Lower(item), Lower(keyword))
             THEN <<item>> \o rest
             ELSE rest

\* A variant of the keyword loop that takes every match of a keyword.
RECURSIVE ExtendMatches_every_match(_, _)
ExtendMatches_every_match(keywords, available) ==
    IF keywords = <<>> THEN <<>>
    ELSE Matches(Head(keywords), available)
             \o ExtendMatches_every_match(Tail(keywords), available)

\* for keyword in keywords: if matches: suggested.extend(matches[:2])
RECURSIVE ExtendMatches(_, _)
ExtendMatches(keywords, available) ==
    IF keywords = <<>> THEN <<>>
    ELSE Take(Matches(Head(keywords), available), MatchesPerKeyword)
             \o ExtendMatches(Tail(keywords), available)

\* list(dict.fromkeys(items)): first occurrences, in order
RECURSIVE DictFromKeys(_)
DictFromKeys(items) ==
    IF items = <<>> THEN <<>>
    ELSE LET init == DictFromKeys(SubSeq(items, 1, Len(items) - 1))
             last == items[Len(items)]
         IN  IF \E i \in 1..Len(init) : init[i] = last
             THEN init
             ELSE Append(init, last)

\* random.sample(population, k): every choice of k distinct positions, in
\* every order
RandomSample(population, k) ==
    { [i \in 1..k |-> population[p[i]]] :
        p \in { q \in [1..k -> 1..Len(population)] :
                  \A i, j \in 1..k : i # j => q[i] # q[j] } }

\* A variant of one category without the random last resort.
FallbackCategory_matches_only(keywords, available) ==
    { Take(DictFromKeys(ExtendMatches(keywords, available)), SuggestionCap) }

\* One category of create_fallback_suggestions: the keyword loop, the random
\* last resort, then de-duplication and the cap.  The set of lists the call
\* can return.
FallbackCategory(keywords, available) ==
    LET suggested == ExtendMatches(keywords, available)
        drawn == IF suggested = <<>> /\ available # <<>>
                 THEN RandomSample(available, Min(SampleSize, Len(available)))
                 ELSE {suggested}
    IN  { Take(DictFromKeys(s), SuggestionCap) : s \in drawn }

\* create_fallback_suggestions: the set of SuggestionSets the call can return.
create_fallback_suggestions(user_query, available_food_items, available_products) ==
    { [food_items |-> f, products |-> p] :
        f \in FallbackCategory(food_keywords(user_query), available_food_items),
        p \in FallbackCategory(product_keywords(user_query), available_products) }

(***************************************************************************)
(* JSON values, as json.loads returns them and jsonify sends them.         *)
(***************************************************************************)
JNull == [kind |-> "null", val |-> 0]

JNum(n) == [kind |-> "number", val |-> n]

JStr(s) == [kind |-> "string", val |-> s]

JArr(items) == [kind |-> "array", val |-> items]

JObj(fields) == [kind |-> "object", val |-> fields]

\* a list of str
StrList(names) == JArr([i \in 1..Len(names) |-> JStr(names[i])])

\* d.get(key, default) on a dict
DictGet(d, key, default) ==
    IF key \in DOMAIN d.val THEN d.val[key] ELSE default

(***************************************************************************)
(* Completion text.  The text of a completion is a sequence of tokens: a   *)
(* fence marker, the language tag json, whitespace, a word of prose, a     *)
(* lone brace, or the literal of a complete JSON value.  An object literal *)
(* begins with its opening brace and ends with its closing brace; the      *)
(* array, string and number literals used hold no brace.  DEEP is the text *)
(* of arrays nested deeper than the interpreter's recursion limit.         *)
(***************************************************************************)
FENCE == [tok |-> "~~~", val |-> JNull]

TAG == [tok |-> "json", val |-> JNull]

WS == [tok |-> " ", val |-> JNull]

PROSE == [tok |-> "prose", val |-> JNull]

LBRACE == [tok |-> "{", val |-> JNull]

RBRACE == [tok |-> "}", val |-> JNull]

Lit(v) == [tok |-> "literal", val |-> v]

DEEP == [tok |-> "[[[[", val |-> JNull]

\* the characters of pat removed from cs: str.replace(pat, '') on one string
RECURSIVE RemoveSub(_, _)
RemoveSub(cs, pat) ==
    IF Len(cs) < Len(pat) THEN cs
    ELSE IF SubSeq(cs, 1, Len(pat)) = pat
         THEN RemoveSub(SubSeq(cs, Len(pat) + 1, Len(cs)), pat)
         ELSE <<Head(cs)>> \o RemoveSub(Tail(cs), pat)

\* the string with the given characters
StrOf(cs) == CHOOSE s \in DOMAIN CharTable : CharTable[s] = cs

\* str.replace(pat, '') as it acts inside the literal of a JSON value: on
\* the string values the literal spells out
RECURSIVE ReplaceInValue(_, _)
ReplaceInValue(v, pat) ==
    CASE v.kind = "string" ->
             IF Contains(Chars(v.val), Chars(pat))
             THEN JStr(StrOf(RemoveSub(Chars(v.val), Chars(pat))))
             ELSE v
      [] v.kind = "array" ->
             JArr([i \in 1..Len(v.val) |-> ReplaceInValue(v.val[i], pat)])
      [] v.kind = "object" ->
             JObj([k \in DOMAIN v.val |-> ReplaceInValue(v.val[k], pat)])
      [] OTHER -> v

\* text.replace('~~~json', '')
RECURSIVE ReplaceFenceJson(_)
ReplaceFenceJson(text) ==
    IF text = <<>> THEN <<>>
    ELSE IF Len(text) >= 2 /\ text[1] = FENCE /\ text[2] = TAG
         THEN ReplaceFenceJson(SubSeq(text, 3, Len(text)))
         ELSE IF text[1].tok = "literal"
              THEN <<Lit(ReplaceInValue(text[1].val, "~~~json"))>>
                       \o ReplaceFenceJson(Tail(text))
              ELSE <<text[1]>> \o ReplaceFenceJson(Tail(text))

\* text.replace('~~~', '')
RECURSIVE ReplaceFence(_)
ReplaceFence(text) ==
    IF text = <<>> THEN <<>>
    ELSE IF text[1] = FENCE
         THEN ReplaceFence(Tail(text))
         ELSE IF text[1].tok = "literal"
              THEN <<Lit(ReplaceInValue(text[1].val, "~~~"))>>
                       \o ReplaceFence(Tail(text))
              ELSE <<text[1]>> \o ReplaceFence(Tail(text))

\* text.strip()
RECURSIVE Strip(_)
Strip(text) ==
    IF text = <<>> THEN <<>>
    ELSE IF Head(text) = WS THEN Strip(Tail(text))
    ELSE IF text[Len(text)] = WS THEN Strip(SubSeq(text, 1, Len(text) - 1))
    ELSE text

\* text.startswith('~~~json'), text.startswith('~~~'), text.endswith('~~~')
StartsWithFenceJson(text) == Len(text) >= 2 /\ text[1] = FENCE /\ text[2] = TAG

StartsWithFence(text) == Len(text) >= 1 /\ text[1] = FENCE

EndsWithFence(text) == Len(text) >= 1 /\ text[Len(text)] = FENCE

\* The outcome of json.loads: the value, or the exception it raises.
Parsed(v) == [ok |-> TRUE, error |-> "", value |-> v]

JSONDecodeError == [ok |-> FALSE, error |-> "JSONDecodeError", value |-> JNull]

RecursionError == [ok |-> FALSE, error |-> "RecursionError", value |-> JNull]

\* json.loads(text): whitespace, one value, whitespace.  The only values a
\* token sequence spells are a literal and the empty object { }.  The
\* decoder recurses into nested arrays before it looks at what follows them.
json_loads(text) ==
    LET body == Strip(text)
    IN  IF Len(body) >= 1 /\ body[1] = DEEP
        THEN RecursionError
        ELSE IF Len(body) = 1 /\ body[1].tok = "literal"
        THEN Parsed(body[1].val)
        ELSE IF Len(body) >= 2 /\ body[1] = LBRACE /\ body[Len(body)] = RBRACE
                /\ \A i \in 2..(Len(body) - 1) : body[i] = WS
        THEN Parsed(JObj(<<>>))
        ELSE JSONDecodeError

\* whether a token holds an opening / a closing brace
HasOpenBrace(t) == t = LBRACE \/ (t.tok = "literal" /\ t.val.kind = "object")

HasCloseBrace(t) == t = RBRACE \/ (t.tok = "literal" /\ t.val.kind = "object")

\* re.search(r'\{.*\}', text, re.DOTALL): from the first opening brace to
\* the last closing brace; <<>> stands for no match (a match is never empty).
BraceMatch(text) ==
    LET opens == { i \in 1..Len(text) : HasOpenBrace(text[i]) }
        first == CHOOSE i \in opens : \A j \in opens : i <= j
        closes == { i \in 1..Len(text) : HasCloseBrace(text[i]) /\ i >= first }
        last == CHOOSE i \in closes : \A j \in closes : j <= i
    IN  IF opens = {} THEN <<>>
        ELSE IF closes = {} THEN <<>>
        ELSE SubSeq(text, first, last)

(***************************************************************************)
(* The output-repair ladders of the two model-backed stages.               *)
(***************************************************************************)
\* The model call of a stage: it raises (the backend is unreachable, the
\* call errors, the completion carries no text), or it returns a text.
Raises == [raises |-> TRUE, text |-> <<>>]

Returns(text) == [raises |-> FALSE, text |-> text]

\* try: json.loads(data) / except json.JSONDecodeError: re.search, then
\* json.loads of the match -- the two parse attempts both stages make on the
\* cleaned text.  Only JSONDecodeError is caught: any other exception of
\* json.loads leaves the ladder.
ParseLadder(data) ==
    LET direct == json_loads(data)
        json_match == BraceMatch(data)
    IN  IF direct.error # "JSONDecodeError" THEN direct
        ELSE IF json_match # <<>> THEN json_loads(json_match)
        ELSE JSONDecodeError

\* get_suggested_items_and_products, the clean-up of the response
SuggestionCleanup(content) ==
    LET suggested_data == Strip(content)
    IN  IF StartsWithFenceJson(suggested_data)
        THEN Strip(ReplaceFence(ReplaceFenceJson(suggested_data)))
        ELSE IF StartsWithFence(suggested_data)
        THEN Strip(ReplaceFence(suggested_data))
        ELSE suggested_data

\* get_final_combined_selection, step 1
SelectionCleanup(content) ==
    LET selected_data == Strip(content)
        unfenced == IF StartsWithFenceJson(selected_data)
                    THEN Strip(ReplaceFenceJson(selected_data))
                    ELSE IF StartsWithFence(selected_data)
                    THEN Strip(ReplaceFence(selected_data))
                    ELSE selected_data
    IN  IF EndsWithFence(unfenced)
        THEN Strip(SubSeq(unfenced, 1, Len(unfenced) - 1))
        ELSE unfenced

\* a dict as the fallback engine builds it
SuggestionDict(s) ==
    JObj([food_items |-> StrList(s.food_items), products |-> StrList(s.products)])

\* available[:50], as the prompt shows the lists to the model
PromptLimit == 50

\* A variant of the stage that hands the fallback engine the lists as the
\* prompt shows them.
get_suggested_items_and_products_prompt_lists(user_query, available_food_items, available_products, completion) ==
    LET fallback == { SuggestionDict(s) :
                        s \in create_fallback_suggestions(user_query,
                                  Take(available_food_items, PromptLimit),
                                  Take(available_products, PromptLimit)) }
        result == ParseLadder(SuggestionCleanup(completion.text))
    IN  IF completion.raises THEN fallback
        ELSE IF result.ok THEN {result.value}
        ELSE fallback

\* get_suggested_items_and_products: the values the call can return, given
\* what its one model call does.  The outer except Exception takes whatever
\* the call or the parsing raises to the fallback engine.
get_suggested_items_and_products(user_query, available_food_items, available_products, completion) ==
    LET fallback == { SuggestionDict(s) :
                        s \in create_fallback_suggestions(
                                  user_query, available_food_items, available_products) }
        result == ParseLadder(SuggestionCleanup(completion.text))
    IN  IF completion.raises THEN fallback
        ELSE IF result.ok THEN {result.value}
        ELSE fallback

\* when an exception leaves it.
\* the outcome of a call that may raise
Raised == [raised |-> TRUE, value |-> JNull]

Returned(v) == [raised |-> FALSE, value |-> v]

EmptySelection == JObj([food_selection |-> JArr(<<>>), product_selection |-> JArr(<<>>)])

\* get_final_combined_selection, given what its one model call does.  The
\* request and the search results go into the prompt only.  The call is
\* made outside any try, so what it raises leaves the function.
get_final_combined_selection(user_query, food_results, product_results, completion) ==
    LET result == ParseLadder(SelectionCleanup(completion.text))
    IN  IF completion.raises THEN Raised
        ELSE IF result.ok THEN Returned(result.value)
        ELSE IF result.error = "JSONDecodeError" THEN Returned(EmptySelection)
        ELSE Raised

(***************************************************************************)
(* The catalog store and the commerce backend, as the service sees them.   *)
(***************************************************************************)
\* A row of food.menu_items; review 0 stands for NULL.
MenuRow(name, restaurant_id, review) ==
    [name |-> name, restaurant_id |-> restaurant_id, review |-> review]

\* The rows of food.menu_items.  No two rows of one name share a review, so
\* ORDER BY review DESC NULLS LAST fixes the order.
MenuItems ==
    << MenuRow("Chocolate Cake", "r1", 4), MenuRow("Chocolate Cake", "r2", 5),
       MenuRow("Chocolate Cake", "r3", 0), MenuRow("Chocolate Cake", "r4", 3),
       MenuRow("Veggie Pizza", "r1", 2) >>

\* LIMIT 3
RowLimit == 3

\* rows sorted by review, highest first; NULL (0) last
RECURSIVE OrderByReviewDesc(_)
OrderByReviewDesc(rows) ==
    IF rows = {} THEN <<>>
    ELSE LET top == CHOOSE r \in rows : \A q \in rows : q.review <= r.review
         IN  <<top>> \o OrderByReviewDesc(rows \ {top})

\* SELECT * FROM food.menu_items WHERE LOWER(name) = LOWER(%s)
\*   ORDER BY review DESC NULLS LAST LIMIT 3
MenuQuery(item) ==
    LET hits == { MenuItems[i] : i \in { j \in 1..Len(MenuItems) :
                    Lower(MenuItems[j].name) = Lower(item) } }
    IN  Take(OrderByReviewDesc(hits), RowLimit)

\* the keys a Python loop over a parsed value visits, when the value is a
\* list of str
Names(list) == [i \in 1..Len(list.val) |-> list.val[i].val]

IsStrList(v) ==
    v.kind = "array" /\ \A i \in 1..Len(v.val) : v.val[i].kind = "string"

\* fetch_food_search_results: db is what the catalog store does during the
\* call: "ok", "down" (no connection) or "error" (a query raises).
fetch_food_search_results(item_list, db) ==
    [item \in { item_list[i] : i \in 1..Len(item_list) } |->
        IF db = "ok" THEN MenuQuery(item) ELSE <<>>]

\* What one GET /search/product/{name} does: a 200 with a JSON body, a 200
\* whose body is no JSON, another status, or a transport error.
Ok200(records) == [status |-> 200, json |-> TRUE, records |-> records]

NotJson200 == [status |-> 200, json |-> FALSE, records |-> <<>>]

\* a 500 whose body is a JSON error message
Status500 == [status |-> 500, json |-> TRUE,
              records |-> <<[error |-> "Internal Server Error"]>>]

TransportError == [status |-> 0, json |-> FALSE, records |-> <<>>]

\* A variant of the loop body that stores the body of any response.
ProductEntry_any_status(lookup) ==
    IF lookup.json THEN lookup.records ELSE <<>>

\* one pass of the loop body of fetch_product_search_results: the entry
\* stored for the product, given what its lookup did
ProductEntry(lookup) ==
    IF lookup.status = 200 /\ lookup.json THEN lookup.records ELSE <<>>

\* search_results[product] = entry
DictSet(d, key, value) ==
    [k \in DOMAIN d \cup {key} |-> IF k = key THEN value ELSE d[k]]

(***************************************************************************)
(* The service: the process-wide session map and the requests in hand.     *)
(***************************************************************************)
\* the worker threads of the server
NumThreads == 2

\* the requests the server is sent in one run
MaxRequests == 3

Threads == 1..NumThreads

\* what str(uuid4()) returns, call after call: always a new identifier
UuidPool == <<"uuid-1", "uuid-2", "uuid-3", "uuid-4", "uuid-5", "uuid-6">>

VARIABLES
    SESSION_CONTEXT,  \* the session map: session_id -> context
    request,          \* per thread: the request in hand, its locals, its response
    uuids,            \* the number of uuid4() calls made
    admitted          \* the number of requests received

vars == <<SESSION_CONTEXT, request, uuids, admitted>>

\* jsonify(body), with a status
Json(status, body) == [status |-> status, json |-> TRUE, body |-> body]

\* an exception leaves the view function: the framework's 500 page
InternalServerError == [status |-> 500, json |-> FALSE, body |-> <<>>]

\* {"role": "user", "content": message}
UserTurn(message) == [role |-> "user", content |-> [str |-> message]]

\* {"role": "assistant", "content": revised}
AssistantTurn(text) == [role |-> "assistant", content |-> [text |-> text]]

\* a thread takes a request when it holds none
Free(r) == request[r].pc = "idle"

\* no other thread is inside a handler
Alone(r) == \A q \in Threads \ {r} : Free(q)

\* A variant of the test that takes an empty value for a value.
Falsy_missing_only(data, key) == key \notin DOMAIN data

\* not data.get(key): the key is missing or its value is empty
Falsy(data, key) == key \notin DOMAIN data \/ data[key] = ""

\* the thread's locals updated
Locals(r, updates) == [request EXCEPT ![r] = updates @@ request[r]]

\* the handler ends with the response
Respond(r, response) == Locals(r, [pc |-> "done", response |-> response])

Init ==
    /\ SESSION_CONTEXT = <<>>
    /\ request = [r \in Threads |-> [pc |-> "idle"]]
    /\ uuids = 0
    /\ admitted = 0

\* A variant of start_chat that enters the session in the map as soon as it
\* has its identifier, before the pipeline runs.
StartChat_store_first(r, Bodies, FoodCatalogs, ProductCatalogs) ==
    /\ Free(r)
    /\ admitted < MaxRequests
    /\ admitted' = admitted + 1
    /\ \E data \in Bodies :
         IF Falsy(data, "query")
         THEN /\ request' = [request EXCEPT ![r] =
                    [pc |-> "done", handler |-> "start_chat", data |-> data,
                     model_calls |-> <<>>,
                     response |-> Json(400, [error |-> "Query is required"])]]
              /\ UNCHANGED <<uuids, SESSION_CONTEXT>>
         ELSE /\ \E foods \in FoodCatalogs, products \in ProductCatalogs :
                   request' = [request EXCEPT ![r] =
                       [pc |-> "suggest", handler |-> "start_chat", data |-> data,
                        model_calls |-> <<>>,
                        user_query |-> data.query,
                        session_id |-> UuidPool[uuids + 1],
                        available_food_items |-> foods,
                        available_products |-> products]]
              /\ uuids' = uuids + 1
              /\ SESSION_CONTEXT' = DictSet(SESSION_CONTEXT, UuidPool[uuids + 1],
                     [chat_history |-> <<UserTurn(data.query)>>])

(***************************************************************************)
(* POST /chat/start                                                        *)
(***************************************************************************)
\* start_chat up to the Suggestion Stage: the body is read, the identifier
\* drawn and the two catalog lists fetched ([] when the store is down).
StartChat(r, Bodies, FoodCatalogs, ProductCatalogs) ==
    /\ Free(r)
    /\ admitted < MaxRequests
    /\ admitted' = admitted + 1
    /\ UNCHANGED SESSION_CONTEXT
    /\ \E data \in Bodies :
         IF Falsy(data, "query")
         THEN /\ request' = [request EXCEPT ![r] =
                    [pc |-> "done", handler |-> "start_chat", data |-> data,
                     model_calls |-> <<>>,
                     response |-> Json(400, [error |-> "Query is required"])]]
              /\ UNCHANGED uuids
         ELSE /\ \E foods \in FoodCatalogs, products \in ProductCatalogs :
                   request' = [request EXCEPT ![r] =
                       [pc |-> "suggest", handler |-> "start_chat", data |-> data,
                        model_calls |-> <<>>,
                        user_query |-> data.query,
                        session_id |-> UuidPool[uuids + 1],
                        available_food_items |-> foods,
                        available_products |-> products]]
              /\ uuids' = uuids + 1

\* The prompt of the Suggestion Stage: the request and the first 50 names
\* of each list.
SuggestionPrompt(user_query, available_food_items, available_products) ==
    [request |-> user_query,
     food_items |-> Take(available_food_items, PromptLimit),
     products |-> Take(available_products, PromptLimit)]

\* suggestions = get_suggested_items_and_products(...): one model call, then
\* the parsed value or the fallback engine's.
SuggestionStage(r, Completions) ==
    /\ request[r].pc = "suggest"
    /\ UNCHANGED <<SESSION_CONTEXT, uuids, admitted>>
    /\ \E completion \in Completions :
       \E suggestions \in get_suggested_items_and_products(
                              request[r].user_query, request[r].available_food_items,
                              request[r].available_products, completion) :
            request' = Locals(r,
                [pc |-> "search",
                 model_calls |-> Append(request[r].model_calls, "suggest"),
                 suggest_prompt |-> SuggestionPrompt(request[r].user_query,
                                        request[r].available_food_items,
                                        request[r].available_products),
                 suggest_completion |-> completion,
                 suggestions |-> suggestions])

\* a value a for loop cannot run over
NotIterable(v) == v.kind \in {"number", "null"}

\* food_items = suggestions.get("food_items", []), products likewise, then
\* fetch_food_search_results(food_items) and the entry into the loop of
\* fetch_product_search_results(products).  suggestions.get raises when the
\* parsed value is no dict, and either loop raises on a value it cannot run
\* over.  The lists the model covers are lists of str.
SearchFood(r, DbOutcomes) ==
    /\ request[r].pc = "search"
    /\ UNCHANGED <<SESSION_CONTEXT, uuids, admitted>>
    /\ LET suggestions == request[r].suggestions
           food_items == DictGet(suggestions, "food_items", JArr(<<>>))
           products == DictGet(suggestions, "products", JArr(<<>>))
       IN  IF suggestions.kind # "object"
           THEN request' = Respond(r, InternalServerError)
           ELSE IF NotIterable(food_items) \/ NotIterable(products)
           THEN request' = Respond(r, InternalServerError)
           ELSE /\ IsStrList(food_items)
                /\ IsStrList(products)
                /\ \E db \in DbOutcomes :
                     request' = Locals(r,
                         [pc |-> "products",
                          food_items |-> food_items,
                          products |-> products,
                          food_search_results |->
                              fetch_food_search_results(Names(food_items), db),
                          product_search_results |-> <<>>,
                          lookups |-> <<>>,
                          pending |-> Names(products)])

\* fetch_product_search_results, one pass of its loop: the lookup of the
\* next product and the entry stored for it.
SearchProduct(r, Lookups) ==
    /\ request[r].pc = "products"
    /\ request[r].pending # <<>>
    /\ UNCHANGED <<SESSION_CONTEXT, uuids, admitted>>
    /\ \E lookup \in Lookups :
         LET product == Head(request[r].pending)
         IN  request' = Locals(r,
                 [pending |-> Tail(request[r].pending),
                  lookups |-> Append(request[r].lookups,
                                  [product |-> product, lookup |-> lookup]),
                  product_search_results |->
                      DictSet(request[r].product_search_results,
                              product, ProductEntry(lookup))])

\* final_selection = get_final_combined_selection(...), once the loop of
\* fetch_product_search_results has ended: one model call.
FinalSelectionStage(r, Completions) ==
    /\ request[r].pc = "products"
    /\ request[r].pending = <<>>
    /\ UNCHANGED <<SESSION_CONTEXT, uuids, admitted>>
    /\ \E completion \in Completions :
         LET outcome == get_final_combined_selection(
                            request[r].user_query,
                            request[r].food_search_results,
                            request[r].product_search_results, completion)
             called == [model_calls |-> Append(request[r].model_calls, "select"),
                        select_completion |-> completion]
         IN  IF outcome.raised
             THEN request' = Locals(r,
                      [pc |-> "done", response |-> InternalServerError] @@ called)
             ELSE request' = Locals(r,
                      [pc |-> "store", final_selection |-> outcome.value] @@ called)

\* A variant of the store that keeps one session only: the map is replaced
\* by the new entry.
StoreSession_single_session(r) ==
    /\ request[r].pc = "store"
    /\ UNCHANGED <<uuids, admitted>>
    /\ SESSION_CONTEXT' = DictSet(<<>>, request[r].session_id,
           [chat_history |-> <<UserTurn(request[r].user_query)>>,
            food_items |-> request[r].food_items,
            products |-> request[r].products,
            food_search_results |-> request[r].food_search_results,
            product_search_results |-> request[r].product_search_results,
            final_selection |-> request[r].final_selection])
    /\ request' = Respond(r, Json(200,
           [session_id |-> request[r].session_id,
            initial_query |-> request[r].user_query,
            suggestions |-> request[r].suggestions,
            final_selection |-> request[r].final_selection]))

\* SESSION_CONTEXT[session_id] = {...}; return jsonify({...})
StoreSession(r) ==
    /\ request[r].pc = "store"
    /\ UNCHANGED <<uuids, admitted>>
    /\ SESSION_CONTEXT' = DictSet(SESSION_CONTEXT, request[r].session_id,
           [chat_history |-> <<UserTurn(request[r].user_query)>>,
            food_items |-> request[r].food_items,
            products |-> request[r].products,
            food_search_results |-> request[r].food_search_results,
            product_search_results |-> request[r].product_search_results,
            final_selection |-> request[r].final_selection])
    /\ request' = Respond(r, Json(200,
           [session_id |-> request[r].session_id,
            initial_query |-> request[r].user_query,
            suggestions |-> request[r].suggestions,
            final_selection |-> request[r].final_selection]))

(***************************************************************************)
(* POST /chat/continue                                                     *)
(***************************************************************************)
\* the system turn of the refinement prompt
SystemTurn == [role |-> "system", content |-> [str |-> "refine"]]

\* {"role": "user", "content": "Current Selection:\n" + json.dumps(...)}
CurrentSelectionTurn(final_selection) ==
    [role |-> "user", content |-> [selection |-> final_selection]]

\* continue_chat up to the model call: the checks, the look-up of the
\* session, the user turn appended to its chat_history, the prompt composed.
\* before keeps the context as the request found it (for the properties
\* only; the handler holds no such copy).
ContinueChat(r, Bodies) ==
    /\ Free(r)
    /\ admitted < MaxRequests
    /\ admitted' = admitted + 1
    /\ UNCHANGED uuids
    /\ \E data \in Bodies :
         LET head == [handler |-> "continue_chat", data |-> data, model_calls |-> <<>>]
         IN  IF Falsy(data, "session_id") \/ Falsy(data, "message")
             THEN /\ request' = [request EXCEPT ![r] = head @@
                        [pc |-> "done",
                         response |-> Json(400,
                             [error |-> "Session ID and message are required"])]]
                  /\ UNCHANGED SESSION_CONTEXT
             ELSE IF data.session_id \notin DOMAIN SESSION_CONTEXT
             THEN /\ request' = [request EXCEPT ![r] = head @@
                        [pc |-> "done",
                         response |-> Json(404, [error |-> "Invalid session ID"])]]
                  /\ UNCHANGED SESSION_CONTEXT
             ELSE LET context == SESSION_CONTEXT[data.session_id]
                      chat_history == Append(context.chat_history,
                                             UserTurn(data.message))
                  IN  /\ SESSION_CONTEXT' =
                             [SESSION_CONTEXT EXCEPT
                                 ![data.session_id].chat_history = chat_history]
                      /\ request' = [request EXCEPT ![r] = head @@
                             [pc |-> "refine",
                              session_id |-> data.session_id,
                              followup_message |-> data.message,
                              before |-> context,
                              messages |-> <<SystemTurn>> \o chat_history \o
                                  <<CurrentSelectionTurn(context.final_selection)>>]]

\* {"error": "Failed to process revision", "details": str(e)}
RevisionFailed(details) ==
    Json(200, [error |-> "Failed to process revision", details |-> details])

\* A variant of the try block that appends the assistant turn before it
\* parses the text, so that a parse failure leaves the turn behind.
continue_chat_try_append_first(context, completion) ==
    LET revised == Strip(completion.text)
        revised_data == json_loads(revised)
    IN  IF completion.raises
        THEN [failed |-> TRUE, details |-> "backend error",
              final_selection |-> context.final_selection,
              chat_history |-> context.chat_history]
        ELSE IF ~revised_data.ok
        THEN [failed |-> TRUE, details |-> revised_data.error,
              final_selection |-> context.final_selection,
              chat_history |-> Append(context.chat_history, AssistantTurn(revised))]
        ELSE [failed |-> FALSE, details |-> "",
              final_selection |-> revised_data.value,
              chat_history |-> Append(context.chat_history, AssistantTurn(revised))]

\* A variant of the try block that answers with the revised selection but
\* leaves the stored final_selection as it was.
continue_chat_try_keep_selection(context, completion) ==
    LET revised == Strip(completion.text)
        revised_data == json_loads(revised)
    IN  IF completion.raises \/ ~revised_data.ok
        THEN [failed |-> TRUE, details |-> "failed",
              final_selection |-> context.final_selection,
              chat_history |-> context.chat_history]
        ELSE [failed |-> FALSE, details |-> "",
              final_selection |-> context.final_selection,
              chat_history |-> Append(context.chat_history, AssistantTurn(revised))]

\* A variant of the try block that extracts the revision as the Final
\* Selection Stage extracts its selection: fences removed, then the direct
\* parse, then the parse of the text from the first { to the last }.
continue_chat_try_with_ladder(context, completion) ==
    LET revised == Strip(completion.text)
        revised_data == ParseLadder(SelectionCleanup(completion.text))
    IN  IF completion.raises
        THEN [failed |-> TRUE, details |-> "backend error",
              final_selection |-> context.final_selection,
              chat_history |-> context.chat_history]
        ELSE IF ~revised_data.ok
        THEN [failed |-> TRUE, details |-> revised_data.error,
              final_selection |-> context.final_selection,
              chat_history |-> context.chat_history]
        ELSE [failed |-> FALSE, details |-> "",
              final_selection |-> revised_data.value,
              chat_history |-> Append(context.chat_history, AssistantTurn(revised))]

\* A variant of the try block that takes the user turn back out of the
\* history when the revision fails.
continue_chat_try_rollback(context, completion) ==
    LET revised == Strip(completion.text)
        revised_data == json_loads(revised)
    IN  IF completion.raises \/ ~revised_data.ok
        THEN [failed |-> TRUE, details |-> "failed",
              final_selection |-> context.final_selection,
              chat_history |-> SubSeq(context.chat_history, 1,
                                      Len(context.chat_history) - 1)]
        ELSE [failed |-> FALSE, details |-> "",
              final_selection |-> revised_data.value,
              chat_history |-> Append(context.chat_history, AssistantTurn(revised))]

\* The try block of continue_chat, given what its one model call does: the
\* strict parse of the stripped text, and on success the new final_selection
\* and chat_history of the context.  except Exception takes every failure.
continue_chat_try(context, completion) ==
    LET revised == Strip(completion.text)
        revised_data == json_loads(revised)
    IN  IF completion.raises
        THEN [failed |-> TRUE, details |-> "backend error",
              final_selection |-> context.final_selection,
              chat_history |-> context.chat_history]
        ELSE IF ~revised_data.ok
        THEN [failed |-> TRUE, details |-> revised_data.error,
              final_selection |-> context.final_selection,
              chat_history |-> context.chat_history]
        ELSE [failed |-> FALSE, details |-> "",
              final_selection |-> revised_data.value,
              chat_history |-> Append(context.chat_history, AssistantTurn(revised))]

\* A variant of continue_chat that issues the model call a second time when
\* the first attempt fails.
Refine_retry_on_failure(r, Completions) ==
    /\ request[r].pc = "refine"
    /\ UNCHANGED <<uuids, admitted>>
    /\ \E first \in Completions, completion \in Completions :
         LET session_id == request[r].session_id
             context == SESSION_CONTEXT[session_id]
             retried == continue_chat_try(context, first).failed
             after == IF retried THEN continue_chat_try(context, completion)
                      ELSE continue_chat_try(context, first)
             called == [model_calls |->
                            request[r].model_calls \o
                                (IF retried THEN <<"refine", "refine">> ELSE <<"refine">>),
                        refine_completion |-> IF retried THEN completion ELSE first]
         IN  /\ SESSION_CONTEXT' =
                   [SESSION_CONTEXT EXCEPT
                       ![session_id].final_selection = after.final_selection,
                       ![session_id].chat_history = after.chat_history]
             /\ request' = Locals(r,
                   [pc |-> "done",
                    response |->
                        IF after.failed
                        THEN RevisionFailed(after.details)
                        ELSE Json(200,
                                 [revised_selection |-> after.final_selection,
                                  chat_history |-> after.chat_history])] @@ called)

\* A variant of continue_chat that stores its revision only when the stored
\* final_selection is still the one its prompt was composed from.
Refine_first_write_wins(r, Completions) ==
    /\ request[r].pc = "refine"
    /\ UNCHANGED <<uuids, admitted>>
    /\ \E completion \in Completions :
         LET session_id == request[r].session_id
             context == SESSION_CONTEXT[session_id]
             after == continue_chat_try(context, completion)
             stale == context.final_selection # request[r].before.final_selection
             called == [model_calls |-> Append(request[r].model_calls, "refine"),
                        refine_completion |-> completion]
         IN  /\ SESSION_CONTEXT' =
                   [SESSION_CONTEXT EXCEPT
                       ![session_id].final_selection =
                           IF stale THEN @ ELSE after.final_selection,
                       ![session_id].chat_history = after.chat_history]
             /\ request' = Locals(r,
                   [pc |-> "done",
                    response |->
                        IF after.failed
                        THEN RevisionFailed(after.details)
                        ELSE Json(200,
                                 [revised_selection |-> after.final_selection,
                                  chat_history |-> after.chat_history])] @@ called)

\* continue_chat from the model call to the response.
Refine(r, Completions) ==
    /\ request[r].pc = "refine"
    /\ UNCHANGED <<uuids, admitted>>
    /\ \E completion \in Completions :
         LET session_id == request[r].session_id
             after == continue_chat_try(SESSION_CONTEXT[session_id], completion)
             called == [model_calls |-> Append(request[r].model_calls, "refine"),
                        refine_completion |-> completion]
         IN  /\ SESSION_CONTEXT' =
                   [SESSION_CONTEXT EXCEPT
                       ![session_id].final_selection = after.final_selection,
                       ![session_id].chat_history = after.chat_history]
             /\ request' = Locals(r,
                   [pc |-> "done",
                    response |->
                        IF after.failed
                        THEN RevisionFailed(after.details)
                        ELSE Json(200,
                                 [revised_selection |-> after.final_selection,
                                  chat_history |-> after.chat_history])] @@ called)

(***************************************************************************)
(* POST /cart/add-all and GET /health                                      *)
(***************************************************************************)
\* user_id = "5d320bcc-5ccd-4510-aace-695a3d864c18"
user_id == JStr("5d320bcc-5ccd-4510-aace-695a3d864c18")

\* the decimal numerals int() is given
Numerals == [s \in {"1", "2", "3"} |->
                CASE s = "1" -> 1 [] s = "2" -> 2 [] s = "3" -> 3]

\* whether int(v) raises: None raises TypeError, a str that is no numeral
\* ValueError
IntRaises(v) ==
    \/ v.kind \in {"null", "array", "object"}
    \/ v.kind = "string" /\ v.val \notin DOMAIN Numerals

\* int(v)
ToInt(v) == IF v.kind = "string" THEN Numerals[v.val] ELSE v.val

\* x.get(key): None when the key is missing
Get(d, key) == DictGet(d, key, JNull)

\* Python truth of a value
Truthy(v) ==
    CASE v.kind = "null" -> FALSE
      [] v.kind = "string" -> v.val # ""
      [] v.kind = "number" -> v.val # 0
      [] v.kind = "array" -> v.val # <<>>
      [] v.kind = "object" -> DOMAIN v.val # {}

\* whether building the payload of an item raises: item.get on a value that
\* is no dict, or int() of its quantity
PayloadRaises(item) ==
    \/ item.kind # "object"
    \/ IntRaises(DictGet(item, "quantity", JNum(1)))

\* payload = {"user_id": ..., "restaurant_id": item.get("restaurant_id"), ...}
Payload(item) ==
    [user_id |-> user_id,
     restaurant_id |-> Get(item, "restaurant_id"),
     item_id |-> Get(item, "item_id"),
     quantity |-> JNum(ToInt(DictGet(item, "quantity", JNum(1)))),
     producturl |-> IF Truthy(Get(item, "producturl"))
                    THEN Get(item, "producturl")
                    ELSE Get(item, "image_url")]

\* What one POST /cart/add does: a response with a status, or a transport
\* error.
CartOk == [raises |-> FALSE, status_code |-> 200, text |-> "ok"]

CartRejected == [raises |-> FALSE, status_code |-> 400, text |-> "rejected"]

CartUnreachable == [raises |-> TRUE, status_code |-> 0, text |-> "unreachable"]

\* add_items_to_cart up to its loop.  not food_selection holds for a
\* missing key and for an empty list.
AddItemsToCart(r, Bodies) ==
    /\ Free(r)
    /\ admitted < MaxRequests
    /\ admitted' = admitted + 1
    /\ UNCHANGED <<SESSION_CONTEXT, uuids>>
    /\ \E data \in Bodies :
         LET head == [handler |-> "add_items_to_cart", data |-> data,
                      model_calls |-> <<>>]
         IN  IF "food_selection" \notin DOMAIN data
                \/ ~Truthy(data.food_selection)
             THEN request' = [request EXCEPT ![r] = head @@
                      [pc |-> "done",
                       response |-> Json(400,
                           [error |-> "Missing food_selection or user_id"])]]
             ELSE /\ data.food_selection.kind = "array"
                  /\ request' = [request EXCEPT ![r] = head @@
                      [pc |-> "cart",
                       pending |-> data.food_selection.val,
                       posts |-> <<>>,
                       replies |-> <<>>,
                       added_items |-> <<>>,
                       failed_items |-> <<>>]]

\* A variant of the test that takes any response for a success.
Added_any_response(post) == ~post.raises

\* response.status_code == 200, of a call that returned
Added(post) == ~post.raises /\ post.status_code = 200

\* One pass of the loop of add_items_to_cart.  The payload is built outside
\* the try: what that raises leaves the handler.
AddItem(r, CartOutcomes) ==
    /\ request[r].pc = "cart"
    /\ request[r].pending # <<>>
    /\ UNCHANGED <<SESSION_CONTEXT, uuids, admitted>>
    /\ LET item == Head(request[r].pending)
           payload == Payload(item)
       IN  IF PayloadRaises(item)
           THEN request' = Respond(r, InternalServerError)
           ELSE \E post \in CartOutcomes :
                  request' = Locals(r,
                      [pending |-> Tail(request[r].pending),
                       posts |-> Append(request[r].posts, payload),
                       replies |-> Append(request[r].replies, post),
                       added_items |->
                           IF Added(post)
                           THEN Append(request[r].added_items, payload)
                           ELSE request[r].added_items,
                       failed_items |->
                           IF Added(post)
                           THEN request[r].failed_items
                           ELSE Append(request[r].failed_items,
                                    [item |-> item, reason |-> post.text])])

\* return jsonify({"status": "completed", "added": ..., "failed": ...})
CartCompleted(r) ==
    /\ request[r].pc = "cart"
    /\ request[r].pending = <<>>
    /\ UNCHANGED <<SESSION_CONTEXT, uuids, admitted>>
    /\ request' = Respond(r, Json(200,
           [status |-> "completed",
            added |-> request[r].added_items,
            failed |-> request[r].failed_items]))

\* health_check
HealthCheck(r) ==
    /\ Free(r)
    /\ admitted < MaxRequests
    /\ admitted' = admitted + 1
    /\ UNCHANGED <<SESSION_CONTEXT, uuids>>
    /\ request' = [request EXCEPT ![r] =
           [pc |-> "done", handler |-> "health_check", model_calls |-> <<>>,
            response |-> Json(200,
                [status |-> "healthy", message |-> "API is running"])]]

\* the response is sent and the thread goes back to the pool
SendResponse(r) ==
    /\ request[r].pc = "done"
    /\ request' = [request EXCEPT ![r] = [pc |-> "idle"]]
    /\ UNCHANGED <<SESSION_CONTEXT, uuids, admitted>>

(***************************************************************************)
(* The values the environment supplies.                                    *)
(***************************************************************************)
\* a SuggestionSet as the model spells it
SuggestionValue(foods, products) ==
    JObj([food_items |-> StrList(foods), products |-> StrList(products)])

\* a food LineItem and a product LineItem (the fields the service reads)
FoodLine(item_name, item_id, restaurant_id) ==
    JObj([item_name |-> JStr(item_name), item_id |-> JStr(item_id),
          restaurant_id |-> JStr(restaurant_id), quantity |-> JNum(2)])

ProductLine(product_name, product_id) ==
    JObj([product_name |-> JStr(product_name), product_id |-> JStr(product_id),
          quantity |-> JNum(1)])

SelectionA ==
    JObj([food_selection |-> JArr(<<FoodLine("Chocolate Cake", "m2", "r2")>>),
          product_selection |-> JArr(<<ProductLine("Party Poppers", "p1")>>)])

SelectionB ==
    JObj([food_selection |-> JArr(<<FoodLine("Veggie Pizza", "m5", "r1")>>),
          product_selection |-> JArr(<<>>)])

\* a selection that lists one food from two restaurants and one product
\* twice
SelectionTwoVenues ==
    JObj([food_selection |-> JArr(<<FoodLine("Chocolate Cake", "m2", "r2"),
                                    FoodLine("Chocolate Cake", "m1", "r1")>>),
          product_selection |-> JArr(<<ProductLine("Party Poppers", "p1"),
                                       ProductLine("Party Poppers", "p1")>>)])

\* valid JSON that is no object
ArrayValue == StrList(<<"Chocolate Cake">>)

\* an object whose keys are not the expected ones
OtherKeys == JObj([items |-> StrList(<<"Chocolate Cake">>)])

\* a selection with a fence marker inside a string value
FenceInString ==
    JObj([food_selection |-> JArr(<<>>), product_selection |-> JArr(<<>>),
          note |-> JStr("~~~")])

\* text wrapped in a fenced block with the json tag
Fenced(text) == <<FENCE, TAG, WS>> \o text \o <<WS, FENCE>>

\* the longest completion text enumerated
MaxTextLen == 4

Alphabet ==
    {FENCE, TAG, WS, PROSE, LBRACE, RBRACE, DEEP,
     Lit(SelectionA), Lit(ArrayValue), Lit(FenceInString)}

\* every text of at most n tokens
Texts(n) == UNION { [1..k -> Alphabet] : k \in 0..n }

Queries ==
    {"birthday party for 10 kids", "Picnic then a PARTY", "outdoor dinner",
     "Family MEAL", "dinner before the birthday", "plan something", "a picnic"}

FoodCatalogs ==
    { <<>>,
      <<"Chocolate Cake", "Veggie Pizza">>,
      <<"Cupcake", "Chocolate Cake", "Cheese Cake", "Veggie Pizza",
        "Cheese Burger", "Brownie", "Muffin", "Potato Chips", "Plain Rice">>,
      <<"Samosa", "Idli", "Dosa", "Vada">>,
      <<"Club Sandwich", "Plain Rice", "Coffee">>,
      LongFood }

ProductCatalogs ==
    { <<>>,
      <<"Party Poppers", "LED String Lights">>,
      <<"Notebook", "Pen">>,
      <<"Bath Towels", "Storage Box", "Paper Plates">>,
      LongProd }

\* a record of the commerce backend's product search
ProductRecord(name, id) == [product_name |-> name, product_id |-> id]

(***************************************************************************)
(* Spec: the service answering one request at a time.                      *)
(***************************************************************************)
StartBodies == {<<>>, [query |-> ""], [query |-> "birthday party for 10 kids"]}

ServedFood == {<<"Chocolate Cake", "Veggie Pizza">>}

ServedProducts == {<<"Party Poppers", "LED String Lights">>}

SuggestCompletions ==
    {Raises,
     Returns(<<Lit(SuggestionValue(<<"Chocolate Cake">>, <<"Party Poppers">>))>>),
     Returns(<<Lit(ArrayValue)>>)}

ProductLookups == {Ok200(<<ProductRecord("Party Poppers", "p1")>>)}

SelectCompletions == {Raises, Returns(<<Lit(SelectionA)>>), Returns(<<PROSE>>)}

ContinueBodies ==
    {<<>>, [session_id |-> "uuid-1"], [message |-> "no pizza"],
     [session_id |-> "uuid-1", message |-> ""]}
    \cup { [session_id |-> s, message |-> "no pizza"] : s \in {"uuid-1", "uuid-9"} }

RefineCompletions ==
    {Raises,
     Returns(<<Lit(SelectionB)>>),
     Returns(<<WS, Lit(SelectionB), WS>>),
     Returns(Fenced(<<Lit(SelectionB)>>)),
     Returns(<<PROSE, WS, Lit(SelectionB)>>),
     Returns(<<PROSE>>),
     Returns(<<Lit(ArrayValue)>>)}

CartBodies ==
    {<<>>, [food_selection |-> JArr(<<FoodLine("Chocolate Cake", "m2", "r2")>>)]}

CartOutcomes == {CartOk, CartRejected}

Next ==
    \E r \in Threads :
        \/ Alone(r) /\ StartChat(r, StartBodies, ServedFood, ServedProducts)
        \/ SuggestionStage(r, SuggestCompletions)
        \/ SearchFood(r, {"ok"})
        \/ SearchProduct(r, ProductLookups)
        \/ FinalSelectionStage(r, SelectCompletions)
        \/ StoreSession(r)
        \/ Alone(r) /\ ContinueChat(r, ContinueBodies)
        \/ Refine(r, RefineCompletions)
        \/ Alone(r) /\ AddItemsToCart(r, CartBodies)
        \/ AddItem(r, CartOutcomes)
        \/ CartCompleted(r)
        \/ Alone(r) /\ HealthCheck(r)
        \/ SendResponse(r)

Spec == Init /\ [][Next]_vars

(***************************************************************************)
(* SpecSuggest: one /chat/start request up to the return of the Suggestion *)
(* Stage, over the requests and the catalog lists.                         *)
(***************************************************************************)
\* the first request of a run, taken by the first thread
First(r) == r = 1 /\ Alone(r) /\ admitted = 0

SuggestBodies == { [query |-> q] : q \in Queries }

StageCompletions ==
    {Raises,
     Returns(<<PROSE>>),
     Returns(<<LBRACE, PROSE, RBRACE>>),
     Returns(<<DEEP>>),
     Returns(<<Lit(SuggestionValue(<<"Veggie Pizza">>, <<"Pen">>))>>),
     Returns(Fenced(<<Lit(SuggestionValue(<<"Veggie Pizza">>, <<"Pen">>))>>)),
     Returns(<<PROSE, WS, Lit(SuggestionValue(<<"Veggie Pizza">>, <<"Pen">>)), WS, PROSE>>)}

NextSuggest ==
    \E r \in Threads :
        \/ First(r) /\ StartChat(r, SuggestBodies, FoodCatalogs, ProductCatalogs)
        \/ SuggestionStage(r, StageCompletions)

SpecSuggest == Init /\ [][NextSuggest]_vars

(***************************************************************************)
(* SpecStart: one /chat/start request through its whole pipeline, over     *)
(* what the generative backend, the catalog store and the commerce backend *)
(* can do at each stage.                                                   *)
(***************************************************************************)
PipelineBodies ==
    {[query |-> "birthday party for 10 kids"], [query |-> "plan something"]}

PipelineFood == {<<>>, <<"Chocolate Cake", "Veggie Pizza">>}

PipelineProducts == {<<"Party Poppers", "LED String Lights">>}

\* a SuggestionSet whose food_items is a number
NumberForList == JObj([food_items |-> JNum(3), products |-> StrList(<<>>)])

PipelineSuggest ==
    {Raises,
     Returns(<<PROSE>>),
     Returns(<<DEEP>>),
     Returns(<<Lit(SuggestionValue(<<"Chocolate Cake">>, <<"Party Poppers">>))>>),
     Returns(Fenced(<<Lit(SuggestionValue(<<"Chocolate Cake">>, <<"Party Poppers">>))>>)),
     Returns(<<Lit(ArrayValue)>>),
     Returns(<<Lit(OtherKeys)>>),
     Returns(<<Lit(NumberForList)>>)}

PipelineDb == {"ok", "down", "error"}

PipelineLookups ==
    {Ok200(<<ProductRecord("Party Poppers", "p1")>>), Status500, TransportError}

PipelineSelect ==
    {Raises,
     Returns(<<PROSE>>),
     Returns(<<DEEP>>),
     Returns(<<Lit(SelectionA)>>),
     Returns(Fenced(<<Lit(SelectionA)>>)),
     Returns(<<Lit(SelectionTwoVenues)>>),
     Returns(<<Lit(ArrayValue)>>)}

NextStart ==
    \E r \in Threads :
        \/ First(r) /\ StartChat(r, PipelineBodies, PipelineFood, PipelineProducts)
        \/ SuggestionStage(r, PipelineSuggest)
        \/ SearchFood(r, PipelineDb)
        \/ SearchProduct(r, PipelineLookups)
        \/ FinalSelectionStage(r, PipelineSelect)
        \/ StoreSession(r)

SpecStart == Init /\ [][NextStart]_vars

(***************************************************************************)
(* SpecExtract: one /chat/start request whose Final Selection Stage is     *)
(* answered with every text of at most MaxTextLen tokens.                  *)
(***************************************************************************)
NextExtract ==
    \E r \in Threads :
        \/ First(r) /\ StartChat(r, {[query |-> "plan something"]}, {<<>>}, {<<>>})
        \/ SuggestionStage(r, {Raises})
        \/ SearchFood(r, {"ok"})
        \/ FinalSelectionStage(r, { Returns(t) : t \in Texts(MaxTextLen) })

SpecExtract == Init /\ [][NextExtract]_vars

(***************************************************************************)
(* SpecAggregate: one /chat/start request up to the end of the product     *)
(* search, over the lists of suggested products and what each lookup does. *)
(***************************************************************************)
\* the longest list of suggested products
MaxNames == 3

\* every list of at most n of the names
NameLists(names, n) == UNION { [1..k -> names] : k \in 0..n }

AggregateSuggest ==
    { Returns(<<Lit(SuggestionValue(<<>>, products))>>) :
        products \in NameLists({"Party Poppers", "LED String Lights"}, MaxNames) }

AggregateLookups ==
    {Ok200(<<ProductRecord("Party Poppers", "p1")>>),
     Ok200(<<ProductRecord("Party Poppers", "p1"), ProductRecord("Party Poppers", "p2"),
             ProductRecord("LED String Lights", "p1"), ProductRecord("LED String Lights", "p2")>>),
     NotJson200, Status500, TransportError}

NextAggregate ==
    \E r \in Threads :
        \/ First(r) /\ StartChat(r, {[query |-> "plan something"]}, {<<>>}, {<<>>})
        \/ SuggestionStage(r, AggregateSuggest)
        \/ SearchFood(r, {"ok"})
        \/ SearchProduct(r, AggregateLookups)

SpecAggregate == Init /\ [][NextAggregate]_vars

(***************************************************************************)
(* SpecCart: one /cart/add-all request, over the items submitted and what  *)
(* each POST /cart/add does.                                               *)
(***************************************************************************)
\* the longest food_selection submitted
MaxItems == 2

CartItems ==
    {FoodLine("Chocolate Cake", "m2", "r2"),
     JObj([item_name |-> JStr("Veggie Pizza"), restaurant_id |-> JStr("r1")]),
     JObj([item_id |-> JStr("m5"), restaurant_id |-> JStr("r1"), quantity |-> JStr("2")]),
     JObj([item_id |-> JStr("m5"), restaurant_id |-> JStr("r1"), quantity |-> JStr("two")]),
     JStr("Cupcake")}

SubmittedCarts ==
    { [food_selection |-> JArr(items)] :
        items \in UNION { [1..k -> CartItems] : k \in 0..MaxItems } }

NextCart ==
    \E r \in Threads :
        \/ First(r) /\ AddItemsToCart(r, SubmittedCarts)
        \/ AddItem(r, {CartOk, CartRejected, CartUnreachable})
        \/ CartCompleted(r)

SpecCart == Init /\ [][NextCart]_vars

(***************************************************************************)
(* Properties of /chat/continue, for requests served one at a time (Spec). *)
(***************************************************************************)
\* thread r holds a finished /chat/continue request that reached its model call
Refined(r) ==
    /\ request[r].pc = "done"
    /\ request[r].handler = "continue_chat"
    /\ "refine_completion" \in DOMAIN request[r]

\* the model call raised, or its text is not JSON
RefinementFailed(r) ==
    \/ request[r].refine_completion.raises
    \/ ~json_loads(request[r].refine_completion.text).ok

\* C1: a /chat/continue request on a known session whose backend call raises
\* or returns text that is not JSON is answered 200 with a body of exactly the
\* keys error and details; the session's final_selection is what it was
\* before the request, and its chat_history is the prior history followed by
\* the one new user turn, with no assistant turn.
C1_FailedRevisionLeavesSession ==
    \A r \in Threads :
        (Refined(r) /\ RefinementFailed(r)) =>
            LET context == SESSION_CONTEXT[request[r].session_id]
                before == request[r].before
            IN  /\ request[r].response.status = 200
                /\ request[r].response.json
                /\ DOMAIN request[r].response.body = {"error", "details"}
                /\ context.final_selection = before.final_selection
                /\ context.chat_history =
                       Append(before.chat_history, UserTurn(request[r].followup_message))

\* a revision failed on text the model did return (a fenced object), on a
\* session whose selection was not empty
C1_Witness ==
    \E r \in Threads :
        /\ Refined(r)
        /\ request[r].refine_completion = Returns(Fenced(<<Lit(SelectionB)>>))
        /\ request[r].before.final_selection = SelectionA
        /\ "error" \in DOMAIN request[r].response.body

\* what a successful revision leaves, the assistant turn carrying content
RevisionApplied(r, content) ==
    LET context == SESSION_CONTEXT[request[r].session_id]
        before == request[r].before
    IN  /\ context.chat_history =
               before.chat_history \o
                   <<UserTurn(request[r].followup_message), AssistantTurn(content)>>
        /\ context.final_selection = json_loads(request[r].refine_completion.text).value
        /\ request[r].response.status = 200
        /\ DOMAIN request[r].response.body = {"revised_selection", "chat_history"}
        /\ request[r].response.body.revised_selection = context.final_selection
        /\ request[r].response.body.chat_history = context.chat_history

\* C2: after a successful /chat/continue request on a known session, running
\* alone, chat_history is the prior history, then the user turn, then the
\* assistant turn whose content is the backend text with the white space
\* around it stripped; final_selection is the parsed response, and the
\* response's revised_selection and chat_history are the session's new ones.
C2_RevisionStoresStrippedText ==
    \A r \in Threads :
        (Refined(r) /\ ~RefinementFailed(r)) =>
            RevisionApplied(r, Strip(request[r].refine_completion.text))

\* C2 as stated: the assistant turn carries the backend text as it came
C2_RevisionStoresRawText ==
    \A r \in Threads :
        (Refined(r) /\ ~RefinementFailed(r)) =>
            RevisionApplied(r, request[r].refine_completion.text)

\* a revision succeeded on text with white space around the object
C2_Witness ==
    \E r \in Threads :
        /\ Refined(r)
        /\ request[r].refine_completion = Returns(<<WS, Lit(SelectionB), WS>>)
        /\ SESSION_CONTEXT[request[r].session_id].final_selection = SelectionB
        /\ request[r].before.final_selection = SelectionA

(***************************************************************************)
(* Properties of /chat/start (SpecStart, SpecExtract).                     *)
(***************************************************************************)
\* thread r holds a /chat/start request whose Final Selection Stage has run
Selected(r) ==
    /\ request[r].pc \in {"store", "done"}
    /\ request[r].handler = "start_chat"
    /\ "select_completion" \in DOMAIN request[r]

\* the request has stored its session and answered 200
SessionStored(r) ==
    /\ request[r].response.status = 200
    /\ request[r].session_id \in DOMAIN SESSION_CONTEXT

\* C3: when the generative backend raises during the Final Selection Stage,
\* get_final_combined_selection returns the empty SelectionResult instead of
\* letting the error out, and /chat/start goes on to store a session and to
\* respond.
C3_BackendErrorGivesEmptySelection ==
    \A r \in Threads :
        (Selected(r) /\ request[r].select_completion.raises) =>
            /\ "final_selection" \in DOMAIN request[r]
            /\ request[r].final_selection = EmptySelection
            /\ request[r].pc = "done" => SessionStored(r)

\* step 1 of the Final Selection Stage applied to the text, then the direct
\* parse and the parse of the text from the first { to the last }: both fail
BothParsesFail(text) ==
    LET selected_data == SelectionCleanup(text)
        match == BraceMatch(selected_data)
    IN  /\ ~json_loads(selected_data).ok
        /\ match # <<>> => ~json_loads(match).ok

\* C4: in the Final Selection Stage, for every backend text on which the
\* direct parse (after fence stripping) and the parse of the text from the
\* first { to the last } both fail, or no such text exists, the stage
\* returns exactly the empty SelectionResult and raises nothing to its caller.
C4_UnparseableTextGivesEmptySelection ==
    \A r \in Threads :
        (/\ Selected(r)
         /\ ~request[r].select_completion.raises
         /\ BothParsesFail(request[r].select_completion.text)) =>
            /\ "final_selection" \in DOMAIN request[r]
            /\ request[r].final_selection = EmptySelection

\* the Suggestion Stage of the request met a backend failure: the call
\* raised, or its text gave no value on either parse
SuggestionFailed(r) ==
    LET completion == request[r].suggest_completion
    IN  \/ completion.raises
        \/ ~ParseLadder(SuggestionCleanup(completion.text)).ok

\* C5: every /chat/start request with a non-empty query ends with a JSON
\* response of the shape {session_id, initial_query, suggestions,
\* final_selection}, whatever the generative backend does at either stage;
\* when the backend fails at the Suggestion Stage, suggestions is the
\* fallback engine's output for the query and the catalog.
C5_StartAlwaysAnswersWellFormed ==
    \A r \in Threads :
        (/\ request[r].pc = "done"
         /\ request[r].handler = "start_chat"
         /\ ~Falsy(request[r].data, "query")) =>
            /\ request[r].response.json
            /\ request[r].response.status = 200
            /\ DOMAIN request[r].response.body =
                   {"session_id", "initial_query", "suggestions", "final_selection"}
            /\ SuggestionFailed(r) =>
                   \E s \in create_fallback_suggestions(request[r].user_query,
                                request[r].available_food_items,
                                request[r].available_products) :
                       request[r].response.body.suggestions = SuggestionDict(s)

(***************************************************************************)
(* Properties of the Suggestion Stage and the fallback engine              *)
(* (SpecSuggest).                                                          *)
(***************************************************************************)
\* thread r holds a /chat/start request whose Suggestion Stage has run
Suggested(r) ==
    /\ request[r].pc = "search"
    /\ request[r].handler = "start_chat"

\* the clean-up of the Suggestion Stage applied to the text, then the direct
\* parse and the parse of the text from the first { to the last }: both fail
BothSuggestionParsesFail(text) ==
    LET suggested_data == SuggestionCleanup(text)
        json_match == BraceMatch(suggested_data)
    IN  /\ ~json_loads(suggested_data).ok
        /\ json_match # <<>> => ~json_loads(json_match).ok

\* the Suggestion Stage of the request ended without a parsed value
FellBack(r) ==
    /\ Suggested(r)
    /\ \/ request[r].suggest_completion.raises
       \/ BothSuggestionParsesFail(request[r].suggest_completion.text)

\* C6: in the Suggestion Stage, whenever the backend call raises or the
\* response text fails both parse attempts, the stage returns a result of the
\* fallback engine for the same request text and the same full, untruncated
\* food and product lists; it has made its one backend call and no other,
\* and it has returned rather than raised.
C6_FailureDelegatesToFallback ==
    \A r \in Threads :
        FellBack(r) =>
            /\ \E s \in create_fallback_suggestions(request[r].user_query,
                            request[r].available_food_items,
                            request[r].available_products) :
                   request[r].suggestions = SuggestionDict(s)
            /\ request[r].model_calls = <<"suggest">>

\* the backend returned prose, and the fallback answered with a name that
\* sits beyond the first 50 of the catalog
C6_Witness ==
    \E r \in Threads :
        /\ FellBack(r)
        /\ request[r].suggest_completion = Returns(<<PROSE>>)
        /\ request[r].available_food_items = LongFood
        /\ \E i \in 1..Len(request[r].suggestions.val.food_items.val) :
               request[r].suggestions.val.food_items.val[i] = JStr(LongFood[Len(LongFood)])

\* a suggested list is right for its catalog: names of the catalog only,
\* and empty exactly when the catalog is
FromCatalog(suggested, available) ==
    /\ \A i \in 1..Len(suggested) : \E j \in 1..Len(available) : suggested[i] = available[j]
    /\ suggested = <<>> <=> available = <<>>

\* C7: for all non-empty food and product catalog lists and any request
\* text, the fallback engine returns a SuggestionSet whose food_items and
\* products are each non-empty and hold only names of the corresponding
\* list; a category whose catalog list is empty gets the empty list.
C7_FallbackNonEmptyFromCatalog ==
    \A r \in Threads :
        FellBack(r) =>
            /\ FromCatalog(Names(request[r].suggestions.val.food_items),
                           request[r].available_food_items)
            /\ FromCatalog(Names(request[r].suggestions.val.products),
                           request[r].available_products)

\* no keyword of the bucket matches either catalog: both lists are drawn at
\* random, three names each of four, two of two
C7_Witness ==
    \E r \in Threads :
        /\ FellBack(r)
        /\ request[r].available_food_items = <<"Samosa", "Idli", "Dosa", "Vada">>
        /\ request[r].available_products = <<"Notebook", "Pen">>
        /\ Names(request[r].suggestions.val.food_items) = <<"Vada", "Samosa", "Dosa">>
        /\ Names(request[r].suggestions.val.products) = <<"Pen", "Notebook">>

\* the lower-cased request contains the word
Mentions(user_query, word) == Contains(Lower(user_query), Chars(word))

\* the bucket the priority birthday/party > picnic/outdoor > dinner/meal >
\* default gives the request
PriorityBucket(user_query) ==
    CHOOSE bucket \in {"A", "B", "C", "D"} :
        LET a == Mentions(user_query, "birthday") \/ Mentions(user_query, "party")
            b == Mentions(user_query, "picnic") \/ Mentions(user_query, "outdoor")
            c == Mentions(user_query, "dinner") \/ Mentions(user_query, "meal")
        IN  /\ bucket = "A" <=> a
            /\ bucket = "B" <=> (~a /\ b)
            /\ bucket = "C" <=> (~a /\ ~b /\ c)
            /\ bucket = "D" <=> (~a /\ ~b /\ ~c)

\* C8: the fallback engine picks its keyword bucket by the fixed priority
\* birthday/party > picnic/outdoor > dinner/meal > default, on substrings of
\* the lower-cased request: its result is the one built from the keyword
\* lists of set A when the request contains birthday or party, whatever else
\* it contains and wherever; of set B when it has no A trigger but picnic or
\* outdoor; of set C when it has only dinner or meal; of set D otherwise.
C8_BucketByPriority ==
    \A r \in Threads :
        FellBack(r) =>
            LET bucket == PriorityBucket(request[r].user_query)
            IN  /\ KeywordBucket(request[r].user_query) = bucket
                /\ Names(request[r].suggestions.val.food_items) \in
                       FallbackCategory(FoodKeywords(bucket),
                                        request[r].available_food_items)
                /\ Names(request[r].suggestions.val.products) \in
                       FallbackCategory(ProductKeywords(bucket),
                                        request[r].available_products)

\* a request that names a picnic before a party, in capitals, answered from
\* set A
C8_Witness ==
    \E r \in Threads :
        /\ FellBack(r)
        /\ request[r].user_query = "Picnic then a PARTY"
        /\ request[r].available_food_items = <<"Club Sandwich", "Plain Rice", "Coffee">>
        /\ request[r].available_products = <<"Bath Towels", "Storage Box", "Paper Plates">>
        /\ Names(request[r].suggestions.val.products) = <<"Bath Towels">>

(***************************************************************************)
(* Properties of the product search (SpecAggregate) and of /cart/add-all   *)
(* (SpecCart).                                                             *)
(***************************************************************************)
\* thread r holds a /chat/start request whose product search has ended
Aggregated(r) ==
    /\ request[r].pc = "products"
    /\ request[r].handler = "start_chat"
    /\ request[r].pending = <<>>

\* the lookup returned a non-200 status or raised a transport error
LookupFailed(lookup) == lookup.status # 200

\* what a name maps to after the lookup: the records returned, nothing when
\* the lookup failed or its body was no JSON
EntryFor(lookup) ==
    IF LookupFailed(lookup) \/ ~lookup.json THEN <<>> ELSE lookup.records

\* the search looked every suggested name up, in order, and the result has
\* the suggested names as its keys
AggregationCompleted(r) ==
    LET names == Names(request[r].products)
    IN  /\ Len(request[r].lookups) = Len(names)
        /\ \A i \in 1..Len(names) : request[r].lookups[i].product = names[i]
        /\ DOMAIN request[r].product_search_results =
               { names[i] : i \in 1..Len(names) }

\* C9 as stated: for every list of suggested names and every pattern of
\* per-name lookup outcomes, a name whose lookup returns a non-200 status or
\* raises a transport error maps to the empty list, every other name maps to
\* exactly the records its own lookup returned, the aggregation always
\* completes, and the result has one key per suggested name.
C9_EveryLookupDecidesItsName ==
    \A r \in Threads :
        Aggregated(r) =>
            /\ AggregationCompleted(r)
            /\ \A i \in 1..Len(request[r].lookups) :
                   request[r].product_search_results[request[r].lookups[i].product] =
                       EntryFor(request[r].lookups[i].lookup)

\* C9: for every list of suggested names and every pattern of lookup
\* outcomes, the aggregation completes with one key per distinct suggested
\* name; a name maps to the empty list when the last lookup made for it
\* returned a non-200 status or raised a transport error, and to the records
\* that lookup returned otherwise.  A name listed once is decided by its own
\* lookup; a failure for one name changes no other name's entry.
C9_LastLookupDecidesItsName ==
    \A r \in Threads :
        Aggregated(r) =>
            /\ AggregationCompleted(r)
            /\ \A i \in 1..Len(request[r].lookups) :
                   (\A j \in (i + 1)..Len(request[r].lookups) :
                        request[r].lookups[j].product # request[r].lookups[i].product) =>
                   request[r].product_search_results[request[r].lookups[i].product] =
                       EntryFor(request[r].lookups[i].lookup)

\* a name listed twice, its first lookup answered 500 and its second 200
\* with a record, next to a name whose lookup raised a transport error
C9_Witness ==
    \E r \in Threads :
        /\ Aggregated(r)
        /\ Names(request[r].products) =
               <<"Party Poppers", "LED String Lights", "Party Poppers">>
        /\ request[r].lookups[1].lookup = Status500
        /\ request[r].lookups[2].lookup = TransportError
        /\ request[r].lookups[3].lookup = Ok200(<<ProductRecord("Party Poppers", "p1")>>)
        /\ request[r].product_search_results["Party Poppers"] # <<>>
        /\ request[r].product_search_results["LED String Lights"] = <<>>

\* thread r holds a finished /cart/add-all request with a non-empty
\* food_selection
CartDone(r) ==
    /\ request[r].pc = "done"
    /\ request[r].handler = "add_items_to_cart"
    /\ "posts" \in DOMAIN request[r]

\* C10: for every /cart/add-all request with a non-empty food_selection,
\* whatever the items contain and whatever each external cart call does, the
\* batch is never aborted: one external POST is attempted per item in input
\* order, the response is 200 with status "completed", and every submitted
\* item is reported in exactly one of added or failed.
C10_BatchNeverAborted ==
    \A r \in Threads :
        CartDone(r) =>
            LET items == request[r].data.food_selection.val
            IN  /\ Len(request[r].posts) = Len(items)
                /\ request[r].response.status = 200
                /\ request[r].response.json
                /\ request[r].response.body.status = "completed"
                /\ Len(request[r].response.body.added)
                       + Len(request[r].response.body.failed) = Len(items)

\* the item is a dict with no item_id
LacksItemId(item) == item.kind = "object" /\ "item_id" \notin DOMAIN item.val

\* the item names what the cart needs and its payload can be built
ValidItem(item) ==
    /\ item.kind = "object"
    /\ {"item_id", "restaurant_id"} \subseteq DOMAIN item.val
    /\ ~PayloadRaises(item)

\* thread r holds a finished /cart/add-all request in which one item lacks
\* item_id and the others are valid
OneItemLacksItemId(r) ==
    /\ CartDone(r)
    /\ LET items == request[r].data.food_selection.val
       IN  /\ Cardinality({ i \in 1..Len(items) : LacksItemId(items[i]) }) = 1
           /\ \A i \in 1..Len(items) : LacksItemId(items[i]) \/ ValidItem(items[i])

\* C11 as stated: for a /cart/add-all request in which one item lacks
\* item_id and the other items are valid, the item without item_id appears
\* in failed and every other item appears in added.
C11_ItemWithoutIdFails ==
    \A r \in Threads :
        OneItemLacksItemId(r) =>
            LET items == request[r].data.food_selection.val
                added == request[r].response.body.added
                failed == request[r].response.body.failed
            IN  \A i \in 1..Len(items) :
                    IF LacksItemId(items[i])
                    THEN \E k \in 1..Len(failed) : failed[k].item = items[i]
                    ELSE \E k \in 1..Len(added) : added[k] = Payload(items[i])

\* the commerce backend answered the call with a 200
Answered200(reply) == ~reply.raises /\ reply.status_code = 200

\* C11: for a /cart/add-all request in which one item lacks item_id and the
\* other items are valid, the service posts every item, the one without
\* item_id included (with a null item_id), and reports each by what the
\* commerce backend answered to its own call: added is the payloads of the
\* items answered 200, in order, and failed is the other items, in order,
\* each with its reason.  The item without item_id appears in failed exactly
\* when its call is not answered 200, and each valid item appears in added
\* when its call is answered 200, whatever happens to the other items.
C11_EachItemByItsOwnReply ==
    \A r \in Threads :
        OneItemLacksItemId(r) =>
            LET items == request[r].data.food_selection.val
                replies == request[r].replies
                calls == [i \in 1..Len(items) |-> [item |-> items[i], reply |-> replies[i]]]
                accepted == SelectSeq(calls, LAMBDA c : Answered200(c.reply))
                refused == SelectSeq(calls, LAMBDA c : ~Answered200(c.reply))
            IN  /\ Len(replies) = Len(items)
                /\ request[r].response.status = 200
                /\ request[r].response.body.status = "completed"
                /\ request[r].posts = [i \in 1..Len(items) |-> Payload(items[i])]
                /\ request[r].response.body.added =
                       [i \in 1..Len(accepted) |-> Payload(accepted[i].item)]
                /\ request[r].response.body.failed =
                       [i \in 1..Len(refused) |->
                           [item |-> refused[i].item, reason |-> refused[i].reply.text]]

\* the item without item_id was refused by the commerce backend and the
\* valid item after it was added
C11_Witness ==
    \E r \in Threads :
        /\ OneItemLacksItemId(r)
        /\ Len(request[r].replies) = 2
        /\ LacksItemId(request[r].data.food_selection.val[1])
        /\ request[r].replies = <<CartRejected, CartOk>>
        /\ Len(request[r].response.body.added) = 1
        /\ request[r].response.body.failed[1].item = request[r].data.food_selection.val[1]

(***************************************************************************)
(* Properties of the requests of the service, served one at a time (Spec). *)
(***************************************************************************)
\* the body lacks the field or gives it empty
Lacks(data, key) == key \notin DOMAIN data \/ data[key] = ""

\* the response is a JSON body with an error key under the status
ErrorResponse(response, status) ==
    /\ response.status = status
    /\ response.json
    /\ "error" \in DOMAIN response.body

\* thread r takes a request in this step
Takes(r) == request[r].pc = "idle" /\ request'[r].pc # "idle"

\* the step leaves the session map and the identifiers alone, and the
\* request it admits is finished with no backend call made
NoSideEffect(r) ==
    /\ request'[r].pc = "done"
    /\ request'[r].model_calls = <<>>
    /\ SESSION_CONTEXT' = SESSION_CONTEXT
    /\ uuids' = uuids

\* what the admission of a request to be rejected does
RejectedWithoutEffect(r) ==
    /\ (/\ request'[r].handler = "start_chat"
        /\ Lacks(request'[r].data, "query"))
           => NoSideEffect(r) /\ ErrorResponse(request'[r].response, 400)
    /\ (/\ request'[r].handler = "continue_chat"
        /\ Lacks(request'[r].data, "session_id") \/ Lacks(request'[r].data, "message"))
           => NoSideEffect(r) /\ ErrorResponse(request'[r].response, 400)
    /\ (/\ request'[r].handler = "continue_chat"
        /\ ~Lacks(request'[r].data, "session_id")
        /\ ~Lacks(request'[r].data, "message")
        /\ request'[r].data.session_id \notin DOMAIN SESSION_CONTEXT)
           => NoSideEffect(r) /\ ErrorResponse(request'[r].response, 404)

\* C12: rejected requests have no side effects.  /chat/start with a missing
\* or empty query returns 400 and creates no session; /chat/continue with a
\* missing session_id or message returns 400, and with an unknown session_id
\* 404 with an error key; in all these cases no generative-backend call is
\* made and no session's chat_history or final_selection changes.
C12_RejectedRequestsChangeNothing ==
    [][\A r \in Threads : Takes(r) => RejectedWithoutEffect(r)]_vars

\* a /chat/continue for an unknown session answered 404 next to a stored
\* session
C12_Witness ==
    \E r \in Threads :
        /\ request[r].pc = "done"
        /\ request[r].handler = "continue_chat"
        /\ request[r].data = [session_id |-> "uuid-9", message |-> "no pizza"]
        /\ request[r].response.status = 404
        /\ "uuid-1" \in DOMAIN SESSION_CONTEXT

\* the number of calls of the kind among the model calls of a request
RECURSIVE Calls(_, _)
Calls(model_calls, kind) ==
    IF model_calls = <<>> THEN 0
    ELSE (IF Head(model_calls) = kind THEN 1 ELSE 0) + Calls(Tail(model_calls), kind)

\* C13: no generative-backend call is ever retried.  In every /chat/start
\* invocation the Suggestion Stage call and the Final Selection Stage call
\* are each issued at most once, and exactly once each, in that order, when
\* the request runs to completion; in every /chat/continue invocation on a
\* known session the refinement call is issued exactly once, whether it
\* succeeds or fails.
C13_NoCallRetried ==
    \A r \in Threads :
        /\ (request[r].pc # "idle" /\ request[r].handler = "start_chat") =>
               /\ Calls(request[r].model_calls, "suggest") <= 1
               /\ Calls(request[r].model_calls, "select") <= 1
               /\ Calls(request[r].model_calls, "refine") = 0
               /\ (request[r].pc = "done" /\ request[r].response.status = 200) =>
                      request[r].model_calls = <<"suggest", "select">>
        /\ Refined(r) => request[r].model_calls = <<"refine">>
        /\ (request[r].pc # "idle"
              /\ request[r].handler \in {"add_items_to_cart", "health_check"}) =>
               request[r].model_calls = <<>>

\* a revision that failed because the backend raised, after its one call,
\* on a session whose /chat/start had made its two
C13_Witness ==
    \E r \in Threads :
        /\ Refined(r)
        /\ request[r].refine_completion = Raises
        /\ request[r].model_calls = <<"refine">>
        /\ "error" \in DOMAIN request[r].response.body

\* the value has the two list fields of a SelectionResult
IsSelectionResult(v) ==
    /\ v.kind = "object"
    /\ DOMAIN v.val = {"food_selection", "product_selection"}
    /\ v.val.food_selection.kind = "array"
    /\ v.val.product_selection.kind = "array"

\* no two of the line items carry the same name under the key, unless (for
\* food) they are of the same restaurant
NoRepeatedLine(lines, key, across) ==
    \A i, j \in 1..Len(lines) :
        (/\ i # j
         /\ lines[i].kind = "object" /\ lines[j].kind = "object"
         /\ key \in DOMAIN lines[i].val /\ key \in DOMAIN lines[j].val
         /\ lines[i].val[key] = lines[j].val[key]) =>
            /\ across \in DOMAIN lines[i].val
            /\ across \in DOMAIN lines[j].val
            /\ lines[i].val[across] = lines[j].val[across]

\* the selection is de-duplicated
Deduplicated(v) ==
    IsSelectionResult(v) =>
        /\ NoRepeatedLine(v.val.food_selection.val, "item_name", "restaurant_id")
        /\ \A i, j \in 1..Len(v.val.product_selection.val) :
               LET lines == v.val.product_selection.val
               IN  (/\ i # j
                    /\ lines[i].kind = "object" /\ lines[j].kind = "object"
                    /\ "product_name" \in DOMAIN lines[i].val
                    /\ "product_name" \in DOMAIN lines[j].val) =>
                       lines[i].val.product_name # lines[j].val.product_name

\* C14: every SelectionResult produced by the Final Selection Stage, and
\* stored as a session's final_selection, holds no two food LineItems of the
\* same item_name from different restaurant_ids and no two product LineItems
\* of the same product_name, also when the search results hold the same food
\* name from two restaurants.
C14_SelectionDeduplicated ==
    /\ \A r \in Threads :
           (Selected(r) /\ "final_selection" \in DOMAIN request[r]) =>
               Deduplicated(request[r].final_selection)
    /\ \A session_id \in DOMAIN SESSION_CONTEXT :
           Deduplicated(SESSION_CONTEXT[session_id].final_selection)

\* C15: in every SearchResultMap built by the Search Aggregator, for food
\* and for products alike, each suggested name maps to a sequence of at most
\* 3 records, whatever the catalog or the commerce API returns.
C15_AtMostThreeRecordsPerName ==
    \A r \in Threads :
        (request[r].pc \in {"products", "store", "done"}
           /\ "product_search_results" \in DOMAIN request[r]) =>
            /\ \A name \in DOMAIN request[r].food_search_results :
                   Len(request[r].food_search_results[name]) <= 3
            /\ \A name \in DOMAIN request[r].product_search_results :
                   Len(request[r].product_search_results[name]) <= 3

\* text wrapped in a fenced block without a language tag
FencedPlain(text) == <<FENCE, WS>> \o text \o <<WS, FENCE>>

\* what the two stages extract from a completion text
ExtractedSelection(text) ==
    get_final_combined_selection("plan something", <<>>, <<>>, Returns(text))

ExtractedSuggestion(text) ==
    get_suggested_items_and_products("plan something", <<>>, <<>>, Returns(text))

\* both stages extract from the wrapped text what they extract from the text
SameWrapped(text, wrapped) ==
    /\ ExtractedSelection(wrapped) = ExtractedSelection(text)
    /\ ExtractedSuggestion(wrapped) = ExtractedSuggestion(text)

\* C16: for every text that parses to a structured value, the extraction
\* applied to the text wrapped in a fenced code block, with or without the
\* json tag, yields the same value as applied to the unwrapped text, in the
\* Suggestion Stage and in the Final Selection Stage, also when the text
\* holds a fence marker inside a string value.
C16_FenceWrappingChangesNothing ==
    \A r \in Threads :
        (Selected(r) /\ json_loads(request[r].select_completion.text).ok) =>
            /\ SameWrapped(request[r].select_completion.text,
                           Fenced(request[r].select_completion.text))
            /\ SameWrapped(request[r].select_completion.text,
                           FencedPlain(request[r].select_completion.text))

(***************************************************************************)
(* SpecRace: one /chat/start request stores a session; then /chat/continue *)
(* requests on it are taken by the server's threads with no exclusion      *)
(* between them (app.run serves each request on its own thread).           *)
(***************************************************************************)
RaceBodies ==
    { [session_id |-> "uuid-1", message |-> m] : m \in {"no pizza", "add cake"} }

RaceCompletions ==
    {Raises, Returns(<<Lit(SelectionA)>>), Returns(<<Lit(SelectionB)>>)}

NextRace ==
    \E r \in Threads :
        \/ First(r) /\ StartChat(r, {[query |-> "plan something"]}, {<<>>},
                                 {<<"Party Poppers">>})
        \/ SuggestionStage(r,
               {Returns(<<Lit(SuggestionValue(<<>>, <<"Party Poppers">>))>>)})
        \/ SearchFood(r, {"ok"})
        \/ SearchProduct(r, {TransportError})
        \/ FinalSelectionStage(r, {Raises, Returns(<<Lit(SelectionTwoVenues)>>)})
        \/ StoreSession(r)
        \/ ContinueChat(r, RaceBodies)
        \/ Refine(r, RaceCompletions)
        \/ SendResponse(r)

SpecRace == Init /\ [][NextRace]_vars

\* thread r holds a /chat/continue request answered with a revised selection
Revised(r) ==
    /\ Refined(r)
    /\ "revised_selection" \in DOMAIN request[r].response.body

\* thread r stores its revision in this step
Writes(r) ==
    /\ request[r].pc = "refine"
    /\ request'[r].pc = "done"
    /\ "revised_selection" \in DOMAIN request'[r].response.body

\* C17: two /chat/continue requests on one session are not excluded from
\* each other: both can read the same prior final_selection before either
\* writes; each successful request stores its revision whatever the session
\* holds by then, so the final_selection is that of the write that lands
\* last and the other request's revision, also answered as a success, is gone.
C17_LastWriteWins ==
    [][\A r \in Threads :
          Writes(r) =>
              SESSION_CONTEXT'[request[r].session_id].final_selection =
                  request'[r].response.body.revised_selection]_vars

\* two requests read the same selection, both were answered with their
\* revision, and the session holds one revision while the other is lost
C17_Witness ==
    \E r \in Threads, q \in Threads :
        /\ r # q
        /\ Revised(r) /\ Revised(q)
        /\ request[r].session_id = request[q].session_id
        /\ request[r].before.final_selection = SelectionTwoVenues
        /\ request[q].before.final_selection = SelectionTwoVenues
        /\ request[r].response.body.revised_selection = SelectionA
        /\ request[q].response.body.revised_selection = SelectionB
        /\ SESSION_CONTEXT[request[r].session_id].final_selection = SelectionB

\* C18: in every reachable state the final_selection of every stored session
\* is a SelectionResult, a record with the two list fields food_selection
\* and product_selection, after /chat/start and after any number of
\* /chat/continue turns, whatever valid JSON the generative backend returns.
C18_StoredSelectionIsSelectionResult ==
    \A session_id \in DOMAIN SESSION_CONTEXT :
        IsSelectionResult(SESSION_CONTEXT[session_id].final_selection)

\* the names of the catalog list that the prompt of the stage does not show
BeyondPrompt(available) ==
    { available[i] : i \in (PromptLimit + 1)..Len(available) }
        \ { available[i] : i \in 1..Min(PromptLimit, Len(available)) }

\* the names the returned value suggests under the key
SuggestedNames(suggestions, key) ==
    IF suggestions.kind = "object" /\ key \in DOMAIN suggestions.val
           /\ IsStrList(suggestions.val[key])
    THEN { Names(suggestions.val[key])[i] : i \in 1..Len(suggestions.val[key].val) }
    ELSE {}

\* C19: a catalog name that sits beyond position 50 of its catalog list
\* never appears in the SuggestionSet the Suggestion Stage returns, on any
\* path through the stage: model success, extraction failure, backend error.
C19_NoNameBeyondPromptLimit ==
    \A r \in Threads :
        Suggested(r) =>
            /\ SuggestedNames(request[r].suggestions, "food_items")
                   \cap BeyondPrompt(request[r].available_food_items) = {}
            /\ SuggestedNames(request[r].suggestions, "products")
                   \cap BeyondPrompt(request[r].available_products) = {}

\* the Final Selection Stage would take a selection out of the text
LadderAccepts(text) == ParseLadder(SelectionCleanup(text)).ok

\* the /chat/continue request of thread r was answered with an error and
\* left of itself only its user turn
RevisionRefused(r) ==
    LET context == SESSION_CONTEXT[request[r].session_id]
        before == request[r].before
    IN  /\ DOMAIN request[r].response.body = {"error", "details"}
        /\ request[r].response.body.error = "Failed to process revision"
        /\ context.final_selection = before.final_selection
        /\ context.chat_history =
               Append(before.chat_history, UserTurn(request[r].followup_message))

\* C20: the Refinement Loop applies no extraction ladder: a backend response
\* that is a valid object wrapped in a code fence or surrounded by prose,
\* text the Final Selection Stage would accept, is a failure for
\* /chat/continue, with an error result, final_selection unchanged and no
\* assistant turn appended; only a response that is valid JSON in its
\* entirety is accepted.
C20_RefinementHasNoLadder ==
    \A r \in Threads :
        (Refined(r) /\ ~request[r].refine_completion.raises) =>
            LET text == request[r].refine_completion.text
            IN  /\ "revised_selection" \in DOMAIN request[r].response.body
                       <=> json_loads(text).ok
                /\ ~json_loads(text).ok => RevisionRefused(r)

\* an object surrounded by prose, which the Final Selection Stage would
\* accept, was refused
C20_Witness ==
    \E r \in Threads :
        /\ Refined(r)
        /\ request[r].refine_completion = Returns(<<PROSE, WS, Lit(SelectionB)>>)
        /\ LadderAccepts(request[r].refine_completion.text)
        /\ request[r].before.final_selection = SelectionA
        /\ RevisionRefused(r)

(***************************************************************************)
(* The list the keyword match of the fallback engine is to give, stated    *)
(* over positions of the catalog list rather than by the loop.             *)
(***************************************************************************)
\* the positions of the catalog names that contain the keyword, whatever
\* the case of either
Hits(keyword, available) ==
    { i \in 1..Len(available) : Contains(Lower(available[i]), Lower(keyword)) }

\* the first two of them, in catalog order
FirstHits(keyword, available) ==
    LET hits == Hits(keyword, available)
    IN  { i \in hits : Cardinality({ j \in hits : j < i }) < 2 }

\* (keyword position, catalog position) of every name taken
Taken(keywords, available) ==
    UNION { { <<k, i>> : i \in FirstHits(keywords[k], available) } :
              k \in 1..Len(keywords) }

\* p is taken before q: an earlier keyword, or the same and earlier in the catalog
Earlier(p, q) == p[1] < q[1] \/ (p[1] = q[1] /\ p[2] < q[2])

\* the first occurrence of each name taken
FirstTaken(keywords, available) ==
    LET taken == Taken(keywords, available)
    IN  { p \in taken :
            ~\E q \in taken : Earlier(q, p) /\ available[q[2]] = available[p[2]] }

\* the names of the first occurrences in the order taken, the first 5 of them
KeywordList(keywords, available) ==
    LET first == FirstTaken(keywords, available)
        Place(p) == Cardinality({ q \in first : Earlier(q, p) }) + 1
    IN  [n \in 1..Min(5, Cardinality(first)) |->
            available[(CHOOSE p \in first : Place(p) = n)[2]]]

\* some keyword of the list is contained in some name of the catalog
SomeKeywordMatches(keywords, available) ==
    \E k \in 1..Len(keywords) : Hits(keywords[k], available) # {}

NoDuplicates(list) ==
    \A i, j \in 1..Len(list) : i # j => list[i] # list[j]

\* the category's list of the returned value is the keyword list, and the
\* engine had no other list to return
ByKeywordsOnly(returned, keywords, available) ==
    /\ returned = KeywordList(keywords, available)
    /\ NoDuplicates(returned)
    /\ Len(returned) <= 5
    /\ FallbackCategory(keywords, available) = {returned}

\* C21: when at least one keyword of the chosen bucket matches in a
\* category, the fallback engine's list for that category is: for each
\* keyword in bucket order the first up to 2 catalog names, in catalog
\* order, that contain the keyword whatever the case, concatenated,
\* de-duplicated keeping first occurrences, cut to the first 5; it has no
\* duplicates, at most 5 entries, and no random choice goes into it.
C21_KeywordListDeterministic ==
    \A r \in Threads :
        FellBack(r) =>
            LET bucket == KeywordBucket(request[r].user_query)
                food == request[r].available_food_items
                products == request[r].available_products
            IN  /\ SomeKeywordMatches(FoodKeywords(bucket), food) =>
                       ByKeywordsOnly(Names(request[r].suggestions.val.food_items),
                                      FoodKeywords(bucket), food)
                /\ SomeKeywordMatches(ProductKeywords(bucket), products) =>
                       ByKeywordsOnly(Names(request[r].suggestions.val.products),
                                      ProductKeywords(bucket), products)

\* a catalog with three cakes, where Cupcake is taken for cake and again for
\* cupcake and the muffin falls to the cap
C21_Witness ==
    \E r \in Threads :
        /\ FellBack(r)
        /\ request[r].user_query = "birthday party for 10 kids"
        /\ request[r].available_food_items =
               <<"Cupcake", "Chocolate Cake", "Cheese Cake", "Veggie Pizza",
                 "Cheese Burger", "Brownie", "Muffin", "Potato Chips", "Plain Rice">>
        /\ Names(request[r].suggestions.val.food_items) =
               <<"Cupcake", "Chocolate Cake", "Cheese Burger", "Veggie Pizza", "Brownie">>

(***************************************************************************)
(* The session map over the life of the requests (Spec, SpecRace).         *)
(***************************************************************************)
\* thread r takes a step of its request
Steps(r) == request'[r] # request[r]

\* thread r ends a /chat/start request in this step
EndsStart(r) ==
    /\ request[r].pc # "done"
    /\ request'[r].pc = "done"
    /\ request'[r].handler = "start_chat"

\* the step adds the session of thread r, and nothing else, to the map: the
\* pipeline has returned, stage after stage, and the identifier is new
StoresNewSession(r) ==
    LET session_id == request[r].session_id
    IN  /\ request[r].pc = "store"
        /\ request[r].model_calls = <<"suggest", "select">>
        /\ {"suggestions", "food_search_results", "product_search_results",
            "final_selection"} \subseteq DOMAIN request[r]
        /\ session_id \notin DOMAIN SESSION_CONTEXT
        /\ DOMAIN SESSION_CONTEXT' = DOMAIN SESSION_CONTEXT \cup {session_id}
        /\ \A other \in DOMAIN SESSION_CONTEXT :
               SESSION_CONTEXT'[other] = SESSION_CONTEXT[other]
        /\ SESSION_CONTEXT'[session_id].chat_history =
               <<UserTurn(request[r].user_query)>>

\* C22: a session becomes visible in the session map only after the whole
\* /chat/start pipeline, Suggestion Stage then Search Aggregator then Final
\* Selection Stage, has returned: each completed /chat/start adds exactly
\* one entry under a fresh identifier that was not in the map before, with
\* chat_history the single user turn carrying the query, and a /chat/start
\* that ends in 400 or in an error raised by a stage leaves the map unchanged.
C22_SessionStoredAfterPipeline ==
    [][/\ DOMAIN SESSION_CONTEXT' # DOMAIN SESSION_CONTEXT =>
              \E r \in Threads : EndsStart(r) /\ request'[r].response.status = 200
       /\ \A r \in Threads :
              /\ (EndsStart(r) /\ request'[r].response.status = 200) =>
                     StoresNewSession(r)
              /\ (/\ Steps(r)
                  /\ "handler" \in DOMAIN request'[r]
                  /\ request'[r].handler = "start_chat"
                  /\ ~(EndsStart(r) /\ request'[r].response.status = 200)) =>
                     SESSION_CONTEXT' = SESSION_CONTEXT]_vars

\* three /chat/start requests: the first and the third stored their
\* sessions, the second drew its identifier and ended in an error
C22_Witness ==
    \E r \in Threads :
        /\ request[r].pc = "done"
        /\ request[r].handler = "start_chat"
        /\ "session_id" \in DOMAIN request[r]
        /\ request[r].session_id = "uuid-3"
        /\ request[r].response.status = 200
        /\ DOMAIN SESSION_CONTEXT = {"uuid-1", "uuid-3"}
        /\ SESSION_CONTEXT["uuid-3"].chat_history = <<UserTurn(request[r].user_query)>>

\* the handler of the request thread r takes a step of
Handler(r) ==
    IF "handler" \in DOMAIN request'[r] THEN request'[r].handler
    ELSE request[r].handler

\* the sessions of the map other than session_id stay as they are
OthersUnchanged(session_id) ==
    \A other \in DOMAIN SESSION_CONTEXT \ {session_id} :
        SESSION_CONTEXT'[other] = SESSION_CONTEXT[other]

\* of the session only chat_history and final_selection may differ
OnlyHistoryAndSelection(session_id) ==
    /\ DOMAIN SESSION_CONTEXT'[session_id] = DOMAIN SESSION_CONTEXT[session_id]
    /\ \A field \in DOMAIN SESSION_CONTEXT[session_id]
                        \ {"chat_history", "final_selection"} :
           SESSION_CONTEXT'[session_id][field] = SESSION_CONTEXT[session_id][field]

\* what a step of thread r may do to the session map
FrameOf(r) ==
    /\ DOMAIN SESSION_CONTEXT \subseteq DOMAIN SESSION_CONTEXT'
    /\ Handler(r) = "continue_chat" =>
           /\ DOMAIN SESSION_CONTEXT' = DOMAIN SESSION_CONTEXT
           /\ IF "session_id" \in DOMAIN request'[r]
              THEN /\ OthersUnchanged(request'[r].session_id)
                   /\ OnlyHistoryAndSelection(request'[r].session_id)
              ELSE SESSION_CONTEXT' = SESSION_CONTEXT
    /\ Handler(r) = "start_chat" =>
           \A session_id \in DOMAIN SESSION_CONTEXT :
               SESSION_CONTEXT'[session_id] = SESSION_CONTEXT[session_id]
    /\ Handler(r) \in {"add_items_to_cart", "health_check"} =>
           SESSION_CONTEXT' = SESSION_CONTEXT

\* C23: across any sequence of requests, /chat/continue changes only the
\* chat_history and final_selection of the session it addresses: that
\* session's food_items, products, food_search_results and
\* product_search_results, and every field of every other session, stay
\* unchanged; /chat/start never alters an existing session; /cart/add-all
\* and /health never touch the session map; and no session is ever removed.
C23_OnlyAddressedSessionChanges ==
    [][\A r \in Threads : Steps(r) => FrameOf(r)]_vars

\* two sessions are stored and a revision was applied to the first: its
\* selection is new, its search results and the second session are as stored
C23_Witness ==
    \E r \in Threads :
        /\ Revised(r)
        /\ request[r].session_id = "uuid-1"
        /\ DOMAIN SESSION_CONTEXT = {"uuid-1", "uuid-2"}
        /\ SESSION_CONTEXT["uuid-1"].final_selection # request[r].before.final_selection
        /\ SESSION_CONTEXT["uuid-1"].food_search_results =
               request[r].before.food_search_results
        /\ Len(SESSION_CONTEXT["uuid-2"].chat_history) = 1

\* the earlier history is the beginning of the later one
IsPrefix(earlier, later) ==
    /\ Len(earlier) <= Len(later)
    /\ SubSeq(later, 1, Len(earlier)) = earlier

\* the number of turns of the history with the role
Turns(chat_history, role) ==
    Cardinality({ i \in 1..Len(chat_history) : chat_history[i].role = role })

\* a history begins with a user turn, holds user and assistant turns only,
\* and has answered at most its follow-ups
WellFormedHistory(chat_history) ==
    /\ chat_history # <<>>
    /\ chat_history[1].role = "user"
    /\ \A i \in 1..Len(chat_history) : chat_history[i].role \in {"user", "assistant"}
    /\ Turns(chat_history, "assistant") <= Turns(chat_history, "user") - 1

\* the step leaves every history a prefix of what it becomes, and a session
\* it adds begins with the query of the request that stores it
HistoryGrows ==
    /\ \A session_id \in DOMAIN SESSION_CONTEXT :
           /\ session_id \in DOMAIN SESSION_CONTEXT'
           /\ IsPrefix(SESSION_CONTEXT[session_id].chat_history,
                       SESSION_CONTEXT'[session_id].chat_history)
    /\ \A session_id \in DOMAIN SESSION_CONTEXT' \ DOMAIN SESSION_CONTEXT :
           \E r \in Threads :
               /\ request[r].pc = "store"
               /\ request[r].session_id = session_id
               /\ SESSION_CONTEXT'[session_id].chat_history[1] =
                      UserTurn(request[r].data.query)
    /\ \A session_id \in DOMAIN SESSION_CONTEXT' :
           WellFormedHistory(SESSION_CONTEXT'[session_id].chat_history)

\* C24: in every reachable state and under any interleaving of requests,
\* each session's chat_history is append-only (every earlier history is a
\* prefix of every later one), its first turn is the user turn carrying the
\* initial query, every turn has role user or assistant, and the number of
\* assistant turns is at most the number of user turns minus one (a failed
\* refinement leaves a user turn with no assistant reply).
C24_HistoryAppendOnly ==
    [][HistoryGrows]_vars

\* two follow-ups were taken before either was answered; one revision was
\* stored and the other failed, leaving its user turn unanswered
C24_Witness ==
    \E session_id \in DOMAIN SESSION_CONTEXT :
        LET chat_history == SESSION_CONTEXT[session_id].chat_history
        IN  /\ \E r \in Threads, q \in Threads :
                   /\ Refined(r) /\ request[r].session_id = session_id
                   /\ Refined(q) /\ request[q].session_id = session_id
                   /\ RefinementFailed(r)
                   /\ ~RefinementFailed(q)
            /\ Len(chat_history) = 4
            /\ chat_history[1] = UserTurn("plan something")
            /\ chat_history[2].role = "user"
            /\ chat_history[3].role = "user"
            /\ chat_history[4].role = "assistant"

====
